---- MODULE Spec2Model ----
(***************************************************************************)
(* Sentinel Finance, the background automation subsystem:                  *)
(*   - the event monitor of backend/watchdog.py (poll_events, the risk     *)
(*     scorer, the alert dispatch) over the persistence functions of       *)
(*     backend/database.py;                                                *)
(*   - the recurring-payment executor of backend/recurring_executor.py.    *)
(* Scores are carried in hundredths (0.7 is 70): every sum of the weights  *)
(* of watchdog.py:64-68 and 0.15, added in the order of the code in        *)
(* IEEE doubles, falls on the same side of 0.4 and 0.7 as the sum in       *)
(* hundredths.                                                             *)
(***************************************************************************)
EXTENDS Integers, Sequences, FiniteSets, TLC

\* ------------------------------------------------------------------ bounds
\* PaymentRequested events the ledger emits in a run.
MaxTx == 1
\* Exceptions raised in poll_events in a run of the monitor over events.
MaxErrors == 2
\* Exceptions raised in poll_events in a run of the loop over an idle vault:
\* more than the retry budget.
MaxLoopErrors == 7
\* Of the failures of a run, those raised inside an open chunk (by a get_logs
\* call or an event handler), BlockNotFound included.
MaxChunkFaults == 2
\* The wall clock stops advancing once it has reached MaxTime seconds.
MaxTime == 1
\* Height up to which the ledger still mines.
MaxHeight == 210
\* Faults in a run of the executor: a database or node call that raises, a
\* receipt wait that times out, a transaction that reverts for a reason
\* outside the token ledger.
MaxExecFaults == 2
\* Pause and resume requests in a run of the executor.
MaxUserOps == 1
\* Scans check_due_payments starts in a run.
MaxScans == 3
\* The smallest unit of the token ledger per token.
WeiPerToken == 100
\* PaymentRequested events the vault emits in a run of bursts, and the time
\* at which the wall clock stops in such a run.
BurstLen == 6
MaxBurstTime == 300
\* urgent_review alerts monitor_pending may insert
MaxReviews == 2
\* failures of each kind the environment has in store in a run checked for
\* progress
MaxLiveFaults == 1

\* ---------------------------------------------------- program constants
ChunkSpan == 100
RetryMaxRetries == 5
RetryBaseDelay == 1
RetryMaxDelay == 60
ExhaustedDelay == 60
BlockNotFoundDelay == 5
IdleDelay == 2
PruneWindow == 3600

\* RiskConfig, in hundredths where the source has a float weight or score.
high_amount_multiplier == 5
rapid_tx_window == 300
rapid_tx_count == 5
new_agent_threshold == 3
high_risk_score == 70
medium_risk_score == 40
amount_anomaly_weight == 30
new_agent_weight == 20
unknown_agent_weight == 25
untrusted_vendor_weight == 30
rapid_tx_weight == 25
volume_spike_weight == 15
volume_spike_multiplier == 10
ScoreCap == 100
MaxFailures == 3

\* ------------------------------------------------------------ the ledger
Agents == {"a1"}
Vendors == {"v1", "v2"}
\* trustedVendors(vendor) of the vault contract.
TrustedVendors == {"v1"}
Amounts == {1, 10}
\* Blocks without events arrive more than a chunk at a time.
LedgerSteps == {ChunkSpan + 2}
TickSteps == {3600}

None == [none |-> TRUE]

Min(a, b) == IF a < b THEN a ELSE b

RECURSIVE Pow2(_)
Pow2(n) == IF n = 0 THEN 1 ELSE 2 * Pow2(n - 1)

RECURSIVE SumAmount(_)
SumAmount(s) == IF s = << >> THEN 0 ELSE Head(s).amount + SumAmount(Tail(s))

VARIABLES
    \* the ledger
    block_number,            \* chain height
    ledger_log,              \* every event emitted so far, in chain order
    now,                     \* time.time(), in seconds
    \* SentinelWatchdog
    running,
    last_processed_block,
    current_retry,           \* retry_config.current_retry
    recent_transactions,
    stats,
    pc,                      \* poll_events: "loop" or "exited"
    cycle,                   \* locals of the last iteration of the loop
    delay,                   \* the sleep that ended the last iteration
    task_pc,                 \* monitor_pending and health_reporter: where each
                             \* is ("test", "sleep", "exited") and its last sleep
    env,                     \* failures the environment may still cause, and
                             \* what the notification sinks answer
    \* persistence
    transactions,
    agents,
    vendors,
    alerts,
    audit_log,
    \* AlertNotifier.notify calls
    notified,
    \* persistence of the executor
    recurring_schedules,
    savings_plans,
    agent_wallets,
    execution_log,
    notifications,
    \* the token ledger the executor pays on
    token,
    \* RecurringExecutor.check_due_payments
    scan,
    \* the failed attempts of each schedule since its last payment or resume
    streak,
    \* the column of a transactions row written by a statement that is not
    \* the program's, or None
    tampered,
    \* a function called on its own: its arguments and, once it has returned,
    \* its result; or None
    invocation

ledgerVars == <<block_number, ledger_log, now, env>>
loopVars == <<running, last_processed_block, current_retry, pc, cycle, delay, task_pc>>
dbVars == <<transactions, agents, vendors, alerts, audit_log>>
monVars == <<recent_transactions, stats, notified>>
execDbVars == <<recurring_schedules, savings_plans, agent_wallets, execution_log,
                notifications>>
execVars == <<execDbVars, token, scan, streak>>
vaultVars == <<block_number, ledger_log>>
monitorVars == <<loopVars, dbVars, monVars>>
vars == <<ledgerVars, loopVars, dbVars, monVars, execVars, tampered, invocation>>


\* ------------------------------------------------------------ persistence
\* A Python or JSON value with its type: json.dumps writes the string "10"
\* and the number 10 differently, so the hash tells them apart.
py_str(x) == <<"str", x>>
py_int(x) == <<"int", x>>
\* What a column of type TEXT holds of a value bound to it, and what the
\* driver hands back on reading a TEXT or an INTEGER column.
column_value(v) == v[2]
read_text(x) == <<"str", x>>
read_integer(x) == <<"int", x>>

\* json.dumps(data, sort_keys=True) of the five hashed fields: the values in
\* the order of their sorted keys. SHA-256 is taken to be collision-free, so
\* the digest is identified with the text it digests.
compute_hash_without_vendor(data) ==
    <<data.agent, data.amount, data.timestamp, data.tx_id>>
compute_hash(data) ==
    <<data.agent, data.amount, data.timestamp, data.tx_id, data.vendor>>

TxIds == 1 .. MaxTx

on_conflict_update_overwriting(row, tx_data) ==
    [row EXCEPT !.executed = tx_data.executed, !.revoked = tx_data.revoked,
                !.timestamp = tx_data.timestamp,
                !.risk_score = tx_data.risk_score,
                !.risk_factors = tx_data.risk_factors]

\* ON CONFLICT (tx_id, vault_address) DO UPDATE SET executed, revoked
on_conflict_update(row, tx_data) ==
    [row EXCEPT !.executed = tx_data.executed, !.revoked = tx_data.revoked]

insert_transaction(txs, tx_data) ==
    LET tx_hash == compute_hash([
                tx_id |-> py_int(tx_data.tx_id),
                agent |-> py_str(tx_data.agent),
                vendor |-> py_str(tx_data.vendor),
                amount |-> tx_data.amount,
                timestamp |-> py_int(tx_data.timestamp)])
        row == [tx_id |-> tx_data.tx_id,
                vault_address |-> "",
                agent |-> tx_data.agent,
                vendor |-> tx_data.vendor,
                amount_wei |-> column_value(tx_data.amount),
                timestamp |-> tx_data.timestamp,
                execute_after |-> tx_data.execute_after,
                executed |-> tx_data.executed,
                revoked |-> tx_data.revoked,
                reason |-> "",
                risk_score |-> tx_data.risk_score,
                risk_factors |-> tx_data.risk_factors,
                hash |-> tx_hash]
    IN  IF txs[tx_data.tx_id] = None
        THEN [txs EXCEPT ![tx_data.tx_id] = row]
        ELSE [txs EXCEPT ![tx_data.tx_id] = on_conflict_update(@, tx_data)]

\* UPDATE transactions SET ... WHERE tx_id = %s; no row, no change. An
\* argument left at its default None is << >>, a given value v is <<v>>.
update_transaction_status(txs, tx_id, executed, revoked, reason) ==
    IF txs[tx_id] = None THEN txs
    ELSE [txs EXCEPT ![tx_id] =
            [@ EXCEPT !.executed = IF executed = << >> THEN @
                                   ELSE (IF executed[1] THEN 1 ELSE 0),
                      !.revoked = IF revoked = << >> THEN @
                                  ELSE (IF revoked[1] THEN 1 ELSE 0),
                      !.reason = IF reason = << >> THEN @ ELSE reason[1]]]

\* SELECT * FROM transactions WHERE executed = 0 AND revoked = 0
\* ORDER BY timestamp DESC, as the list of the ids of the rows.
pending_rows(txs) ==
    {id \in DOMAIN txs : txs[id] # None /\ txs[id].executed = 0 /\ txs[id].revoked = 0}

RECURSIVE by_timestamp_desc(_, _)
by_timestamp_desc(txs, ids) ==
    IF ids = {} THEN << >>
    ELSE LET first == CHOOSE id \in ids :
                         \A other \in ids :
                            \/ txs[id].timestamp > txs[other].timestamp
                            \/ /\ txs[id].timestamp = txs[other].timestamp
                               /\ id <= other
         IN  <<first>> \o by_timestamp_desc(txs, ids \ {first})

get_pending_transactions(txs) == by_timestamp_desc(txs, pending_rows(txs))

\* The hash re-derived from the stored row.
expected_hash(row) ==
    compute_hash([tx_id |-> read_integer(row.tx_id),
                  agent |-> read_text(row.agent),
                  vendor |-> read_text(row.vendor),
                  amount |-> read_text(row.amount_wei),
                  timestamp |-> read_integer(row.timestamp)])

verify_transaction_integrity(txs, tx_id) ==
    IF txs[tx_id] = None THEN FALSE
    ELSE expected_hash(txs[tx_id]) = txs[tx_id].hash

update_agent_stats_overwriting(ags, agent, amount) ==
    [ags EXCEPT ![agent] = [total_transactions |-> 1,
                            total_volume_wei |-> amount,
                            avg_amount_wei |-> amount]]

update_agent_stats(ags, agent, amount) ==
    IF ags[agent] # None
    THEN LET new_total == ags[agent].total_volume_wei + amount
             new_count == ags[agent].total_transactions + 1
         IN [ags EXCEPT ![agent] = [total_transactions |-> new_count,
                                    total_volume_wei |-> new_total,
                                    avg_amount_wei |-> new_total \div new_count]]
    ELSE [ags EXCEPT ![agent] = [total_transactions |-> 1,
                                 total_volume_wei |-> amount,
                                 avg_amount_wei |-> amount]]

get_agent_profile_missing(ags, agent) == None
get_agent_profile(ags, agent) == ags[agent]

update_vendor_stats(vends, vendor, amount, is_trusted) ==
    IF vends[vendor] # None
    THEN [vends EXCEPT ![vendor].total_received_wei = @ + amount,
                       ![vendor].transaction_count = @ + 1]
    ELSE [vends EXCEPT ![vendor] = [trusted |-> IF is_trusted THEN 1 ELSE 0,
                                    total_received_wei |-> amount,
                                    transaction_count |-> 1]]

insert_alert(als, tx_id, alert_type, severity) ==
    Append(als, [tx_id |-> tx_id, alert_type |-> alert_type, severity |-> severity])

insert_audit_log(log, action, entity_id, performed_by) ==
    Append(log, [action |-> action, entity_id |-> entity_id,
                 performed_by |-> performed_by])

\* ------------------------------------------------------------- RiskScorer
\* self.recent_transactions = [tx for tx in ... if now - tx.timestamp < 3600]
prune_recent(recent, t) ==
    LET Keep(tx) == t - tx.timestamp < PruneWindow IN SelectSeq(recent, Keep)

recent_window_any_agent(recent, agent, t) ==
    LET Keep(tx) == t - tx.timestamp < rapid_tx_window IN SelectSeq(recent, Keep)
recent_window(recent, agent, t) ==
    LET Keep(tx) == t - tx.timestamp < rapid_tx_window /\ tx.agent = agent
    IN  SelectSeq(recent, Keep)

\* The factors read from the profile: amount_anomaly and new_agent of an
\* agent that has one, unknown_agent of an agent that has none.
agent_factors_both(profile, amount) ==
    (IF profile # None /\ profile.total_transactions < new_agent_threshold
     THEN <<"new_agent">> ELSE << >>) \o <<"unknown_agent">>
agent_factors(profile, amount) ==
    IF profile # None
    THEN (IF profile.avg_amount_wei > 0
             /\ amount > profile.avg_amount_wei * high_amount_multiplier
          THEN <<"amount_anomaly">> ELSE << >>)
         \o (IF profile.total_transactions < new_agent_threshold
             THEN <<"new_agent">> ELSE << >>)
    ELSE <<"unknown_agent">>

\* What a factor adds to risk_score.
factor_weight_flat(f) == new_agent_weight
factor_weight(f) ==
    CASE f = "amount_anomaly" -> amount_anomaly_weight
      [] f = "new_agent" -> new_agent_weight
      [] f = "unknown_agent" -> unknown_agent_weight
      [] f = "untrusted_vendor" -> untrusted_vendor_weight
      [] f = "rapid_transactions" -> rapid_tx_weight
      [] f = "volume_spike" -> volume_spike_weight

\* risk_score = min(risk_score, 1.0)
cap_score_none(total) == total
cap_score(total) == Min(total, ScoreCap)

\* calculate_risk_score on the profile read and the pruned window.
calculate_risk_score(profile, agent, amount, is_trusted, recent, t) ==
    LET f12 == agent_factors(profile, amount)
        f3 == IF ~is_trusted THEN <<"untrusted_vendor">> ELSE << >>
        window == recent_window(recent, agent, t)
        f4 == IF Len(window) >= rapid_tx_count
              THEN <<"rapid_transactions">> ELSE << >>
        f5 == IF profile # None
                 /\ SumAmount(window) > profile.avg_amount_wei * volume_spike_multiplier
              THEN <<"volume_spike">> ELSE << >>
        factors == f12 \o f3 \o f4 \o f5
        total == LET RECURSIVE Sum(_)
                     Sum(s) == IF s = << >> THEN 0
                               ELSE factor_weight(Head(s)) + Sum(Tail(s))
                 IN Sum(factors)
    IN  [risk_score |-> cap_score(total), risk_factors |-> factors]


\* ------------------------------------------------------------- the ledger
RequestEvents == SelectSeq(ledger_log, LAMBDA e : e.event = "PaymentRequested")
Settled(id) == \E i \in 1 .. Len(ledger_log) :
                  /\ ledger_log[i].event # "PaymentRequested"
                  /\ ledger_log[i].txId = id

\* The vault emits PaymentRequested in a new block.
ledger_request(agent, vendor, amount) ==
    /\ block_number < MaxHeight
    /\ Len(RequestEvents) < MaxTx
    /\ block_number' = block_number + 1
    /\ ledger_log' = Append(ledger_log,
          [event |-> "PaymentRequested", blockNumber |-> block_number + 1,
           txId |-> Len(RequestEvents) + 1, agent |-> agent, vendor |-> vendor,
           amount |-> amount, executeAfter |-> now, reason |-> ""])
    /\ UNCHANGED <<now, env>>

\* The vault emits PaymentExecuted or PaymentRevoked for a requested payment.
ledger_settle(id, kind) ==
    /\ block_number < MaxHeight
    /\ id \in 1 .. Len(RequestEvents)
    /\ ~Settled(id)
    /\ block_number' = block_number + 1
    /\ ledger_log' = Append(ledger_log,
          [event |-> kind, blockNumber |-> block_number + 1,
           txId |-> id, agent |-> "", vendor |-> "",
           amount |-> 0, executeAfter |-> 0,
           reason |-> IF kind = "PaymentRevoked" THEN "owner" ELSE ""])
    /\ UNCHANGED <<now, env>>

\* Blocks without events of the vault.
ledger_mine(n) ==
    /\ block_number + n <= MaxHeight
    /\ block_number' = block_number + n
    /\ UNCHANGED <<ledger_log, now, env>>

tick(d) ==
    /\ now < MaxTime
    /\ now' = now + d
    /\ UNCHANGED <<block_number, ledger_log, env>>

\* <event>.get_logs(from_block, to_block)
get_logs(kind, from_block, to_block) ==
    SelectSeq(ledger_log, LAMBDA e : /\ e.event = kind
                                     /\ e.blockNumber >= from_block
                                     /\ e.blockNumber <= to_block)


\* ------------------------------------------------------- SentinelWatchdog
\* RetryConfig.get_delay, before it increments current_retry.
get_delay_constant(retry) == RetryBaseDelay
get_delay(retry) == Min(RetryBaseDelay * Pow2(retry), RetryMaxDelay)
should_retry_always(retry) == TRUE
should_retry(retry) == retry < RetryMaxRetries

\* AlertNotifier. A sink is "unset" (its URL is not configured) or answers a
\* post with a status, a client error or a timeout.
Sinks == <<"webhook", "slack">>
SinkOutcomes == {"200", "500", "ClientError", "TimeoutError"}
SinksUp == [k \in {"webhook", "slack"} |-> "200"]

\* session.post(url, json=payload, timeout=10)
post(outcome) ==
    [raised |-> outcome \in {"ClientError", "TimeoutError"}, status |-> outcome]

\* send_webhook and send_slack: the post inside try, except Exception.
send_sink(sink, outcome) ==
    LET resp == post(outcome)
    IN  [sink |-> sink, result |-> ~resp.raised /\ resp.status = "200",
         raised |-> FALSE]

\* The tasks notify builds: one per configured sink, the webhook first.
notify_tasks(sinks) == SelectSeq(Sinks, LAMBDA k : sinks[k] # "unset")

\* asyncio.gather(*tasks, return_exceptions=...)
gather(results, return_exceptions) ==
    [attempts |-> results,
     raised |-> ~return_exceptions /\ \E i \in 1 .. Len(results) : results[i].raised]

\* AlertNotifier.notify: what was attempted and whether it raises.
notify_failfast(sinks) ==
    LET tasks == notify_tasks(sinks)
        Fails(i) == post(sinks[tasks[i]]).raised
        failing == {i \in 1 .. Len(tasks) : Fails(i)}
        last == IF failing = {} THEN Len(tasks)
                ELSE CHOOSE i \in failing : \A j \in failing : i <= j
    IN  [attempts |-> [i \in 1 .. last |->
                          [sink |-> tasks[i],
                           result |-> ~Fails(i) /\ sinks[tasks[i]] = "200",
                           raised |-> Fails(i)]],
         raised |-> failing # {}]
notify_uncontained(sinks) ==
    LET tasks == notify_tasks(sinks)
    IN  gather([i \in 1 .. Len(tasks) |->
                   [sink |-> tasks[i], result |-> sinks[tasks[i]] = "200",
                    raised |-> post(sinks[tasks[i]]).raised]], FALSE)
notify(sinks) ==
    LET tasks == notify_tasks(sinks)
    IN  gather([i \in 1 .. Len(tasks) |-> send_sink(tasks[i], sinks[tasks[i]])], TRUE)

\* What the handlers of the monitor read and write, as one value.
MonitorState ==
    [transactions |-> transactions, agents |-> agents, vendors |-> vendors,
     alerts |-> alerts, audit_log |-> audit_log,
     recent_transactions |-> recent_transactions, stats |-> stats,
     notified |-> notified]

\* The statements of process_payment_request: 1 the trustedVendors call, 2
\* calculate_risk_score (profile read, then the prune), 3 insert_transaction,
\* 4 update_agent_stats, 5 update_vendor_stats, 6 the append to
\* recent_transactions and the events_processed count, 7 insert_alert, 8
\* notify, 9 insert_audit_log. `done` counts those completed when it is
\* left: a call that raises leaves it at a FailPoint (6 and 8 follow
\* statements that do not raise), AllDone is a normal return. A notify that
\* raises leaves the handler after its attempts, before statement 9.
AllDone == 9
FailPoints == {0, 2, 3, 4, 6, 8}

\* str(amount) of the tx_data handed to insert_transaction.
tx_amount_as_number(amount) == py_int(amount)
tx_amount(amount) == py_str(amount)

\* The alert of a score: <<alert_type, severity, notify>> or << >>.
classify_without_notify(risk_score) ==
    IF risk_score >= high_risk_score THEN <<"high_risk", "critical", FALSE>>
    ELSE IF risk_score >= medium_risk_score THEN <<"medium_risk", "warning", FALSE>>
    ELSE << >>
classify(risk_score) ==
    IF risk_score >= high_risk_score THEN <<"high_risk", "critical", TRUE>>
    ELSE IF risk_score >= medium_risk_score THEN <<"medium_risk", "warning", FALSE>>
    ELSE << >>

\* The score process_payment_request computes for ev in state st at time t.
request_risk(st, ev, t) ==
    calculate_risk_score(get_agent_profile(st.agents, ev.agent), ev.agent,
                         ev.amount, ev.vendor \in TrustedVendors,
                         prune_recent(st.recent_transactions, t), t)

\* process_payment_request(event) at time t, left after `done` statements.
process_payment_request(st, ev, done, t) ==
    LET is_trusted == ev.vendor \in TrustedVendors
        pruned == prune_recent(st.recent_transactions, t)
        risk == request_risk(st, ev, t)
        tx_data == [tx_id |-> ev.txId, agent |-> ev.agent, vendor |-> ev.vendor,
                    amount |-> tx_amount(ev.amount), timestamp |-> t,
                    execute_after |-> ev.executeAfter, executed |-> 0,
                    revoked |-> 0, risk_score |-> risk.risk_score,
                    risk_factors |-> risk.risk_factors]
        class == classify(risk.risk_score)
        alerting == class # << >>
        notifying == alerting /\ class[3]
        sent == notify(env.sinks)
        left == IF done >= 8 /\ notifying /\ sent.raised THEN 7 ELSE done
    IN  [transactions |-> IF done >= 3
                          THEN insert_transaction(st.transactions, tx_data)
                          ELSE st.transactions,
         agents |-> IF done >= 4
                    THEN update_agent_stats(st.agents, ev.agent, ev.amount)
                    ELSE st.agents,
         vendors |-> IF done >= 5
                     THEN update_vendor_stats(st.vendors, ev.vendor, ev.amount,
                                              is_trusted)
                     ELSE st.vendors,
         recent_transactions |->
              IF done >= 6
              THEN Append(pruned, [tx_id |-> ev.txId, agent |-> ev.agent,
                                   timestamp |-> t, amount |-> ev.amount])
              ELSE IF done >= 2 THEN pruned ELSE st.recent_transactions,
         alerts |-> IF done >= 7 /\ alerting
                    THEN insert_alert(st.alerts, ev.txId, class[1], class[2])
                    ELSE st.alerts,
         notified |-> IF done >= 8 /\ notifying
                      THEN Append(st.notified,
                                  [alert_type |-> "high_risk_transaction",
                                   severity |-> "critical", tx_id |-> ev.txId,
                                   attempts |-> sent.attempts])
                      ELSE st.notified,
         audit_log |-> IF left >= AllDone
                       THEN insert_audit_log(st.audit_log, "payment_requested",
                                             ev.txId, "watchdog")
                       ELSE st.audit_log,
         stats |-> [st.stats EXCEPT
                      !.events_processed = @ + (IF done >= 6 THEN 1 ELSE 0),
                      !.alerts_generated = @ + (IF done >= 7 /\ alerting
                                                THEN 1 ELSE 0)]]

\* process_payment_executed(event): done = 0 update_transaction_status
\* raised, 1 insert_audit_log raised, 2 returned.
process_payment_executed(st, ev, done) ==
    [st EXCEPT
       !.transactions = IF done >= 1
                        THEN update_transaction_status(@, ev.txId, <<TRUE>>,
                                                       << >>, << >>)
                        ELSE @,
       !.audit_log = IF done >= 2
                     THEN insert_audit_log(@, "payment_executed", ev.txId, "contract")
                     ELSE @,
       !.stats.events_processed = @ + (IF done >= 2 THEN 1 ELSE 0)]

\* process_payment_revoked(event): done = 0 update_transaction_status
\* raised, 1 insert_alert raised, 2 insert_audit_log raised, 3 returned.
process_payment_revoked(st, ev, done) ==
    [st EXCEPT
       !.transactions = IF done >= 1
                        THEN update_transaction_status(@, ev.txId, << >>, <<TRUE>>,
                                                       <<ev.reason>>)
                        ELSE @,
       !.alerts = IF done >= 2 THEN insert_alert(@, ev.txId, "revoked", "info")
                  ELSE @,
       !.audit_log = IF done >= 3
                     THEN insert_audit_log(@, "payment_revoked", ev.txId, "owner")
                     ELSE @,
       !.stats.events_processed = @ + (IF done >= 3 THEN 1 ELSE 0)]

\* ------------------------------------------------------------ poll_events
\* The calls of the try body for the chunk from_block..to_block, in order:
\* get_logs and one handler per event, for each of the three event kinds.
EventKinds == <<"PaymentRequested", "PaymentExecuted", "PaymentRevoked">>

calls_of_kind(kind, from_block, to_block) ==
    LET logs == get_logs(kind, from_block, to_block)
    IN  <<[op |-> "get_logs", kind |-> kind, ev |-> None]>>
        \o [i \in 1 .. Len(logs) |-> [op |-> "process", kind |-> kind, ev |-> logs[i]]]

chunk_calls(from_block, to_block) ==
    calls_of_kind(EventKinds[1], from_block, to_block)
    \o calls_of_kind(EventKinds[2], from_block, to_block)
    \o calls_of_kind(EventKinds[3], from_block, to_block)

\* `done` of a call that returns.
returned(call) ==
    CASE call.op = "get_logs" -> 0
      [] call.kind = "PaymentRequested" -> AllDone
      [] call.kind = "PaymentExecuted" -> 2
      [] call.kind = "PaymentRevoked" -> 3

\* The values of `done` at which a call can raise.
raise_points(st, call, t) ==
    CASE call.op = "get_logs" -> {0}
      [] call.kind = "PaymentRequested" ->
            {d \in FailPoints :
                d = 6 => classify(request_risk(st, call.ev, t).risk_score) # << >>}
      [] call.kind = "PaymentExecuted" -> {0, 1}
      [] call.kind = "PaymentRevoked" -> {0, 1, 2}

\* The call raises without a failure of the ledger or of the database: the
\* notify of a request scored critical raises.
call_raises(st, call, t) ==
    /\ call.op = "process"
    /\ call.kind = "PaymentRequested"
    /\ classify(request_risk(st, call.ev, t).risk_score) # << >>
    /\ classify(request_risk(st, call.ev, t).risk_score)[3]
    /\ notify(env.sinks).raised

run_call(st, call, done, t) ==
    CASE call.op = "get_logs" -> st
      [] call.kind = "PaymentRequested" -> process_payment_request(st, call.ev, done, t)
      [] call.kind = "PaymentExecuted" -> process_payment_executed(st, call.ev, done)
      [] call.kind = "PaymentRevoked" -> process_payment_revoked(st, call.ev, done)

\* The state after the first n calls have returned.
RECURSIVE run_calls(_, _, _, _)
run_calls(st, calls, n, t) ==
    IF n = 0 THEN st
    ELSE CHOOSE after \in {run_call(before, calls[n], returned(calls[n]), t) :
                              before \in {run_calls(st, calls, n - 1, t)}} : TRUE

store(st) ==
    /\ transactions' = st.transactions
    /\ agents' = st.agents
    /\ vendors' = st.vendors
    /\ alerts' = st.alerts
    /\ audit_log' = st.audit_log
    /\ recent_transactions' = st.recent_transactions
    /\ notified' = st.notified

\* except Exception: the error is counted, the sleep is the backoff delay or,
\* the budget spent, the long one.
on_exception_advancing(st) ==
    /\ stats' = [st.stats EXCEPT !.errors = @ + 1]
    /\ IF should_retry(current_retry)
       THEN /\ delay' = get_delay(current_retry)
            /\ current_retry' = current_retry + 1
       ELSE /\ current_retry' = 0
            /\ delay' = ExhaustedDelay
    /\ last_processed_block' = block_number
on_exception(st) ==
    /\ stats' = [st.stats EXCEPT !.errors = @ + 1]
    /\ IF should_retry(current_retry)
       THEN /\ delay' = get_delay(current_retry)
            /\ current_retry' = current_retry + 1
       ELSE /\ current_retry' = 0
            /\ delay' = ExhaustedDelay
    /\ UNCHANGED last_processed_block

on_block_not_found_counted(st) == on_exception(st)

\* except BlockNotFound:
on_block_not_found(st) ==
    /\ stats' = st.stats
    /\ delay' = BlockNotFoundDelay
    /\ UNCHANGED <<last_processed_block, current_retry>>

\* The end of the try body.
chunk_done(st, to_block) ==
    /\ stats' = st.stats
    /\ last_processed_block' = to_block
    /\ current_retry' = 0                                \* retry_config.reset()
    /\ delay' = IdleDelay

chunk_to_block_unclamped(from_block, current_block) == from_block + ChunkSpan
chunk_to_block(from_block, current_block) == Min(from_block + ChunkSpan, current_block)

\* One iteration of `while self.running`, in which w3.eth.block_number raises.
poll_events_no_height ==
    /\ pc = "loop"
    /\ running
    /\ env.errors > 0
    /\ env' = [env EXCEPT !.errors = @ - 1]
    /\ on_exception(MonitorState)
    /\ cycle' = [current_block |-> 0, from_block |-> 0, to_block |-> 0,
                 outcome |-> "failed"]
    /\ UNCHANGED <<running, pc, task_pc, block_number, ledger_log, now, dbVars,
                   recent_transactions, notified, execVars, tampered, invocation>>

\* One iteration that finds no new block.
poll_events_idle ==
    /\ pc = "loop"
    /\ running
    /\ block_number <= last_processed_block
    /\ delay' = IdleDelay
    /\ cycle' = [current_block |-> block_number, from_block |-> 0, to_block |-> 0,
                 outcome |-> "idle"]
    /\ UNCHANGED <<running, pc, task_pc, last_processed_block, current_retry,
                   ledgerVars, dbVars, monVars, execVars, tampered, invocation>>

\* One iteration over a chunk: every call returns (stop is past the last
\* call), or call number `stop` raises after `done` of its statements.
poll_events_chunk ==
    /\ pc = "loop"
    /\ running
    /\ block_number > last_processed_block
    /\ LET current_block == block_number
           from_block == last_processed_block + 1
           to_block == chunk_to_block(from_block, current_block)
       IN  \E calls \in {chunk_calls(from_block, to_block)} :
           \E stop \in 1 .. Len(calls) + 1 :
           \E before \in {run_calls(MonitorState, calls, stop - 1, now)} :
              LET forced == stop <= Len(calls) /\ call_raises(before, calls[stop], now)
              IN  /\ \A n \in 1 .. stop - 1 :
                        ~call_raises(run_calls(MonitorState, calls, n - 1, now),
                                     calls[n], now)
                  /\ cycle' = [current_block |-> current_block,
                               from_block |-> from_block, to_block |-> to_block,
                               outcome |-> IF stop > Len(calls) THEN "done"
                                           ELSE "failed"]
                  /\ \/ /\ stop > Len(calls)
                        /\ store(before)
                        /\ chunk_done(before, to_block)
                        /\ UNCHANGED env
                     \/ /\ stop <= Len(calls)
                        /\ calls[stop].op = "get_logs"
                        /\ env.chunk > 0
                        /\ env' = [env EXCEPT !.chunk = @ - 1]
                        /\ store(before)
                        /\ on_block_not_found(before)
                     \/ /\ stop <= Len(calls)
                        /\ forced \/ (env.chunk > 0 /\ env.errors > 0)
                        /\ env' = IF forced THEN env
                                  ELSE [env EXCEPT !.errors = @ - 1, !.chunk = @ - 1]
                        /\ \E done \in IF forced THEN {returned(calls[stop])}
                                        ELSE raise_points(before, calls[stop], now) :
                              \E after \in {run_call(before, calls[stop], done, now)} :
                                  /\ store(after)
                                  /\ on_exception(after)
    /\ UNCHANGED <<running, pc, task_pc, block_number, ledger_log, now, execVars,
                   tampered, invocation>>

poll_events_exit_on_new_block ==
    /\ pc = "loop"
    /\ ~running
    /\ block_number > last_processed_block
    /\ pc' = "exited"
    /\ UNCHANGED <<running, last_processed_block, current_retry, cycle, delay, task_pc>>
    /\ UNCHANGED <<ledgerVars, dbVars, monVars, execVars, tampered, invocation>>

\* The loop condition found false.
poll_events_exit ==
    /\ pc = "loop"
    /\ ~running
    /\ pc' = "exited"
    /\ UNCHANGED <<running, last_processed_block, current_retry, cycle, delay, task_pc>>
    /\ UNCHANGED <<ledgerVars, dbVars, monVars, execVars, tampered, invocation>>

\* SIGINT or SIGTERM
handle_shutdown ==
    /\ running
    /\ running' = FALSE
    /\ UNCHANGED <<last_processed_block, current_retry, pc, cycle, delay, task_pc>>
    /\ UNCHANGED <<ledgerVars, dbVars, monVars, execVars, tampered, invocation>>

\* ---------------------------------- monitor_pending and health_reporter
ReviewWindow == 300
PendingSleep == 30
PendingErrorSleep == 10
HealthSleep == 300

\* risk_score >= high_risk_score and 0 < time_left < 300
review_due(tx, t) ==
    /\ tx.risk_score >= high_risk_score
    /\ 0 < tx.execute_after - t
    /\ tx.execute_after - t < ReviewWindow

\* The body of `for tx in pending` over the first n rows: insert_alert and
\* notify for each row due for review.
RECURSIVE review_pending(_, _, _, _)
review_pending(st, pending, n, t) ==
    IF n = 0 THEN st
    ELSE LET before == review_pending(st, pending, n - 1, t)
             tx == before.transactions[pending[n]]
         IN  IF review_due(tx, t)
             THEN [before EXCEPT
                     !.alerts = insert_alert(@, tx.tx_id, "urgent_review", "critical"),
                     !.notified = Append(@, [alert_type |-> "urgent_review",
                                             severity |-> "critical",
                                             tx_id |-> tx.tx_id,
                                             attempts |-> notify(env.sinks).attempts])]
             ELSE before

\* One pass of `while self.running` in monitor_pending, up to its sleep: the
\* list is read and walked, or get_pending_transactions raises (n = 0), or
\* the insert_alert of row n + 1 does.
monitor_pending ==
    /\ task_pc["monitor_pending"].at = "test"
    /\ running
    /\ Len(alerts) < MaxReviews
    /\ LET pending == get_pending_transactions(transactions)
       IN  \/ /\ store(review_pending(MonitorState, pending, Len(pending), now))
              /\ task_pc' = [task_pc EXCEPT !["monitor_pending"] =
                                [at |-> "sleep", sleep |-> PendingSleep]]
              /\ UNCHANGED <<stats, env>>
           \/ /\ env.errors > 0
              /\ env' = [env EXCEPT !.errors = @ - 1]
              /\ \E n \in 0 .. Len(pending) :
                    /\ n = 0 \/ (n < Len(pending)
                                  /\ review_due(transactions[pending[n + 1]], now))
                    /\ store(review_pending(MonitorState, pending, n, now))
              /\ stats' = [stats EXCEPT !.errors = @ + 1]
              /\ task_pc' = [task_pc EXCEPT !["monitor_pending"] =
                                [at |-> "sleep", sleep |-> PendingErrorSleep]]
    /\ UNCHANGED <<running, last_processed_block, current_retry, pc, cycle, delay,
                   block_number, ledger_log, now, execVars, tampered, invocation>>

\* One pass of `while self.running` in health_reporter, up to its sleep: it
\* reads the counters and logs them.
health_reporter ==
    /\ task_pc["health_reporter"].at = "test"
    /\ running
    /\ task_pc' = [task_pc EXCEPT !["health_reporter"] =
                      [at |-> "sleep", sleep |-> HealthSleep]]
    /\ UNCHANGED <<running, last_processed_block, current_retry, pc, cycle, delay,
                   ledgerVars, dbVars, monVars, execVars, tampered, invocation>>

\* asyncio.sleep returns: the loop is at its test again.
task_wake(task) ==
    /\ task_pc[task].at = "sleep"
    /\ task_pc' = [task_pc EXCEPT ![task].at = "test"]
    /\ UNCHANGED <<running, last_processed_block, current_retry, pc, cycle, delay,
                   ledgerVars, dbVars, monVars, execVars, tampered, invocation>>

\* The loop condition found false.
task_exit(task) ==
    /\ task_pc[task].at = "test"
    /\ ~running
    /\ task_pc' = [task_pc EXCEPT ![task].at = "exited"]
    /\ UNCHANGED <<running, last_processed_block, current_retry, pc, cycle, delay,
                   ledgerVars, dbVars, monVars, execVars, tampered, invocation>>

\* ------------------------------------------------- executor: persistence
\* An id is its text split after the prefix the executor looks for.
startswith(id, prefix) == id[1] = prefix

ScheduleIds == {<<"sched_", 1>>, <<"pay_", 2>>}
PlanIds == {<<"plan_", 1>>}
\* The order in which rows that tie on the sort key are returned.
RowOrder == <<<<"sched_", 1>>, <<"pay_", 2>>, <<"plan_", 1>>>>

Users == {"u1"}
Networks == {"mainnet"}
AgentAddress == "w1"
SavingsContract == "savings"

\* web3.to_wei(amount, 'ether')
to_wei(amount) == amount * WeiPerToken

\* rows of seq that satisfy keep, in ascending order of key
RECURSIVE insert_sorted(_, _, _)
insert_sorted(sorted, row, key) ==
    IF sorted = << >> THEN <<row>>
    ELSE IF key[row] < key[Head(sorted)] THEN <<row>> \o sorted
    ELSE <<Head(sorted)>> \o insert_sorted(Tail(sorted), row, key)

RECURSIVE order_by(_, _)
order_by(rows, key) ==
    IF rows = << >> THEN << >>
    ELSE insert_sorted(order_by(SubSeq(rows, 1, Len(rows) - 1), key),
                       rows[Len(rows)], key)

get_due_schedules(schedules, before) ==
    LET due(id) == /\ id \in ScheduleIds
                   /\ schedules[id] # None
                   /\ schedules[id].is_active = 1
                   /\ schedules[id].next_execution <= before
        key == [id \in {id \in ScheduleIds : due(id)} |-> schedules[id].next_execution]
    IN  order_by(SelectSeq(RowOrder, due), key)

update_schedule_execution(schedules, schedule_id, tx_hash, next_execution, t) ==
    IF schedule_id \in ScheduleIds /\ schedules[schedule_id] # None
    THEN [schedules EXCEPT ![schedule_id] =
            [@ EXCEPT !.next_execution = next_execution,
                      !.last_executed = t,
                      !.execution_count = @ + 1,
                      !.failed_count = 0,
                      !.last_error = None]]
    ELSE schedules

update_schedule_failure(schedules, schedule_id, error) ==
    IF schedule_id \in ScheduleIds /\ schedules[schedule_id] # None
    THEN LET failed_count == schedules[schedule_id].failed_count + 1
             is_active == IF failed_count < MaxFailures THEN 1 ELSE 0
         IN  [schedules EXCEPT ![schedule_id] =
                [@ EXCEPT !.failed_count = failed_count,
                          !.last_error = error,
                          !.is_active = is_active]]
    ELSE schedules

pause_schedule(schedules, schedule_id) ==
    IF schedules[schedule_id] # None
    THEN [schedules EXCEPT ![schedule_id] = [@ EXCEPT !.is_active = 0]]
    ELSE schedules

resume_schedule(schedules, schedule_id) ==
    IF schedules[schedule_id] # None
    THEN [schedules EXCEPT ![schedule_id] =
            [@ EXCEPT !.is_active = 1, !.failed_count = 0]]
    ELSE schedules

get_due_savings_deposits(plans, before) ==
    LET due(id) == /\ id \in PlanIds
                   /\ plans[id] # None
                   /\ plans[id].is_active = 1
                   /\ plans[id].is_recurring = 1
                   /\ plans[id].withdrawn = 0
                   /\ plans[id].next_deposit <= before
        key == [id \in {id \in PlanIds : due(id)} |-> plans[id].next_deposit]
    IN  order_by(SelectSeq(RowOrder, due), key)

update_savings_deposit(plans, plan_id, amount, next_deposit, t) ==
    IF plan_id \in PlanIds /\ plans[plan_id] # None
    THEN [plans EXCEPT ![plan_id] =
            [@ EXCEPT !.deposits_completed = @ + 1,
                      !.total_saved = @ + amount,
                      !.next_deposit = next_deposit,
                      !.last_deposit = t]]
    ELSE plans

log_execution(log, schedule_id, savings_plan_id, amount, tx_hash, status, error_message) ==
    Append(log, [schedule_id |-> schedule_id, savings_plan_id |-> savings_plan_id,
                 amount |-> amount, tx_hash |-> tx_hash, status |-> status,
                 error_message |-> error_message])

create_notification(notes, user_address, notification_type) ==
    Append(notes, [user_address |-> user_address,
                   notification_type |-> notification_type])

get_agent_wallet(wallets, user_address, network) == wallets[<<user_address, network>>]

\* PaymentFrequency(value): the member of that value, or MONTHLY from
\* _missing_. A stored frequency is a text; "" stands for an empty or a NULL
\* column.
PaymentFrequencies == {"daily", "weekly", "biweekly", "monthly", "yearly"}

PaymentFrequency_as_stored(value) == value

PaymentFrequency(value) ==
    IF value \in PaymentFrequencies THEN value ELSE "monthly"

\* get_due_payments(): the due schedules, then the due plans, as
\* RecurringPayment items.
schedule_payment(schedules, id) ==
    [id |-> id, user_address |-> schedules[id].user_address,
     payment_type |-> "vendor", destination |-> schedules[id].vendor_address,
     amount |-> schedules[id].amount,
     frequency |-> PaymentFrequency(schedules[id].frequency),
     execution_time |-> schedules[id].execution_time,
     savings_plan_id |-> None, network |-> schedules[id].network]

plan_payment(plans, id) ==
    [id |-> id, user_address |-> plans[id].user_address,
     payment_type |-> "savings", destination |-> "savings",
     amount |-> plans[id].amount,
     frequency |-> IF plans[id].frequency # "" THEN PaymentFrequency(plans[id].frequency)
                   ELSE "monthly",
     execution_time |-> plans[id].execution_time,
     savings_plan_id |-> plans[id].contract_plan_id, network |-> plans[id].network]

get_due_payments(schedules, plans, t) ==
    LET s == get_due_schedules(schedules, t)
        d == get_due_savings_deposits(plans, t)
    IN  [i \in 1 .. Len(s) |-> schedule_payment(schedules, s[i])]
        \o [i \in 1 .. Len(d) |-> plan_payment(plans, d[i])]

\* The statements of update_payment_execution and update_payment_failure:
\* the row update, only for an id that starts with sched_ in the latter, and
\* the log line. `done` is the number of statements that completed; fewer than
\* all of them means the next one raised.
ExecDb == [recurring_schedules |-> recurring_schedules,
           savings_plans |-> savings_plans,
           execution_log |-> execution_log,
           notifications |-> notifications]

failure_statements(payment_id) == IF startswith(payment_id, "sched_") THEN 2 ELSE 1

update_payment_failure(db, payment_id, error, done) ==
    LET sched == startswith(payment_id, "sched_")
        logged == done >= failure_statements(payment_id)
    IN  [db EXCEPT
           !.recurring_schedules =
               IF sched /\ done >= 1 THEN update_schedule_failure(@, payment_id, error)
               ELSE @,
           !.execution_log =
               IF logged
               THEN log_execution(@, IF sched THEN payment_id ELSE None,
                                  IF sched THEN None ELSE payment_id,
                                  0, None, "failed", error)
               ELSE @]

ExecutionStatements == 2

update_payment_execution(db, payment_id, tx_hash, next_date, amount, done, t) ==
    LET sched == startswith(payment_id, "sched_")
    IN  [db EXCEPT
           !.recurring_schedules =
               IF sched /\ done >= 1
               THEN update_schedule_execution(@, payment_id, tx_hash, next_date, t)
               ELSE @,
           !.savings_plans =
               IF ~sched /\ done >= 1
               THEN update_savings_deposit(@, payment_id, amount, next_date, t)
               ELSE @,
           !.execution_log =
               IF done >= 2
               THEN log_execution(@, IF sched THEN payment_id ELSE None,
                                  IF sched THEN None ELSE payment_id,
                                  amount, tx_hash, "success", None)
               ELSE @]

\* calculate_next_date(frequency, execution_time) at time t; execution_time
\* is <<hour, minute>>.
DaySeconds == 86400

frequency_days(frequency) ==
    CASE frequency = "daily" -> 1
      [] frequency = "weekly" -> 7
      [] frequency = "biweekly" -> 14
      [] frequency = "monthly" -> 30
      [] frequency = "yearly" -> 365
      [] OTHER -> 30

calculate_next_date_keeping_time(frequency, execution_time, t) ==
    t + frequency_days(frequency) * DaySeconds

calculate_next_date(frequency, execution_time, t) ==
    LET next_date == t + frequency_days(frequency) * DaySeconds
    IN  (next_date \div DaySeconds) * DaySeconds
        + execution_time[1] * 3600 + execution_time[2] * 60

\* decrypt_agent_key: a key stored in the clear is returned as it is, one
\* that does not decrypt gives None.
decrypt_agent_key_unchecked(encrypted_key) == encrypted_key

decrypt_agent_key(encrypted_key) ==
    IF encrypted_key[1] = "0x" THEN encrypted_key ELSE None

is_valid_destination(destination, vault_address) ==
    IF destination = vault_address THEN [valid |-> TRUE, reason |-> "Own vault"]
    ELSE IF destination = SavingsContract
         THEN [valid |-> TRUE, reason |-> "Savings contract"]
         ELSE [valid |-> TRUE, reason |-> "Trusted vendor"]

\* ----------------------------------------------------- executor: the chain
\* The token ledger as the agent wallet sees it: its balance, its allowance
\* to the savings contract, the number of its mined transactions, the
\* transactions broadcast and not mined, and the mined ones with their status.
Transfer(payment, nonce) ==
    [sender |-> AgentAddress, nonce |-> nonce, kind |-> "transfer",
     item |-> payment.id, amount |-> to_wei(payment.amount)]

Approve(payment, nonce) ==
    [sender |-> AgentAddress, nonce |-> nonce, kind |-> "approve",
     item |-> payment.id, amount |-> to_wei(payment.amount)]

DepositFromAgent_without_increment(payment, nonce) ==
    [sender |-> AgentAddress, nonce |-> nonce - 1, kind |-> "deposit",
     item |-> payment.id, amount |-> to_wei(payment.amount)]

DepositFromAgent(payment, nonce) ==
    [sender |-> AgentAddress, nonce |-> nonce, kind |-> "deposit",
     item |-> payment.id, amount |-> to_wei(payment.amount)]

balanceOf(tok) == tok.balance

get_transaction_count(tok) == tok.nonce

\* a pending transaction of the same sender and nonce
conflicting(tok, tx) == {p \in tok.pool : p.sender = tx.sender /\ p.nonce = tx.nonce}

\* send_raw_transaction accepted by the node; a transaction of the same
\* nonce it replaces leaves the pool.
send_raw_transaction(tok, tx) ==
    [tok EXCEPT !.pool = (@ \ conflicting(tok, tx)) \cup {tx}]

can_succeed(tok, tx) ==
    CASE tx.kind = "transfer" -> tok.balance >= tx.amount
      [] tx.kind = "approve" -> TRUE
      [] tx.kind = "deposit" -> tok.balance >= tx.amount /\ tok.allowance >= tx.amount

\* The block that includes tx, with receipt status 1 or 0.
mine(tok, tx, status) ==
    LET applied ==
          CASE status = 0 -> tok
            [] tx.kind = "transfer" -> [tok EXCEPT !.balance = @ - tx.amount]
            [] tx.kind = "approve" -> [tok EXCEPT !.allowance = tx.amount]
            [] tx.kind = "deposit" -> [tok EXCEPT !.balance = @ - tx.amount,
                                                  !.allowance = @ - tx.amount]
    IN  [applied EXCEPT !.nonce = @ + 1,
                        !.pool = @ \ conflicting(tok, tx),
                        !.mined = @ \cup {[tx |-> tx, status |-> status]}]

\* ------------------------------------------------ executor: execute_payment
\* What the except clause of execute_payment passes as str(e).
Raised == "exception"

\* The end of one attempt. how = "failure": the try body calls
\* update_payment_failure(error), of which d1 statements complete;
\* "success": it calls update_payment_execution, of which d1 statements
\* complete; "exception": the body raised before either. A raise in the body
\* runs the except clause, update_payment_failure(str(e)), of which d2
\* statements complete; a raise there leaves execute_payment.
body_statements(payment, how) ==
    CASE how = "failure" -> failure_statements(payment.id)
      [] how = "success" -> ExecutionStatements
      [] how = "exception" -> 0

attempt_end(db, payment, how, error, tx, d1, d2, t) ==
    LET id == payment.id
        body ==
          CASE how = "failure" -> update_payment_failure(db, id, error, d1)
            [] how = "success" ->
                 update_payment_execution(db, id, tx,
                     calculate_next_date(payment.frequency, payment.execution_time, t),
                     payment.amount, d1, t)
            [] how = "exception" -> db
        raised == how = "exception" \/ d1 < body_statements(payment, how)
        handled == IF raised THEN update_payment_failure(body, id, Raised, d2)
                   ELSE body
    IN  [db |-> handled, raised |-> raised,
         escaped |-> raised /\ d2 < failure_statements(id)]

\* The values of d1 and d2 an attempt can end with, and the faults they take.
endings(payment, how) ==
    {d \in (0 .. body_statements(payment, how)) \X (0 .. failure_statements(payment.id)) :
        d[1] = body_statements(payment, how) => d[2] = failure_statements(payment.id)}
    \cup (IF how = "exception"
          THEN {0} \X (0 .. failure_statements(payment.id))
          ELSE {})

faults_of(payment, how, d) ==
    (IF how # "exception" /\ d[1] < body_statements(payment, how) THEN 1 ELSE 0)
    + (IF (how = "exception" \/ d[1] < body_statements(payment, how))
          /\ d[2] < failure_statements(payment.id)
       THEN 1 ELSE 0)
\* The attempt on payment ends: its bookkeeping is written, the scan moves
\* to the next item or, the except clause having raised, is over. `spent`
\* faults were taken before the bookkeeping; `noting` says that the
\* low_balance notification follows the bookkeeping.
finish_attempt(payment, how, error, tx, confirmed, spent, noting) ==
    \E d \in endings(payment, how), noted \in BOOLEAN :
        LET end == attempt_end(ExecDb, payment, how, error, tx, d[1], d[2], now)
            reached == noting /\ ~end.raised
            cost == spent + faults_of(payment, how, d)
                    + (IF reached /\ ~noted THEN 1 ELSE 0)
        IN  /\ noted => reached
            /\ cost <= env.exec
            /\ env' = [env EXCEPT !.exec = @ - cost]
            /\ recurring_schedules' = end.db.recurring_schedules
            /\ savings_plans' = end.db.savings_plans
            /\ execution_log' = end.db.execution_log
            /\ notifications' =
                 IF noted
                 THEN create_notification(end.db.notifications,
                                          payment.user_address, "low_balance")
                 ELSE end.db.notifications
            /\ streak' =
                 IF payment.id \in ScheduleIds
                 THEN [streak EXCEPT ![payment.id] =
                         IF confirmed THEN 0 ELSE Min(@ + 1, MaxFailures)]
                 ELSE streak
            /\ scan' = [scan EXCEPT
                 !.pc = IF end.escaped \/ scan.i = Len(scan.due) THEN "idle"
                        ELSE "item",
                 !.i = IF end.escaped THEN @ ELSE @ + 1,
                 !.results = Append(@, [id |-> payment.id, how |-> how,
                                        error |-> error, tx |-> tx,
                                        confirmed |-> confirmed]),
                 !.tx = None]
            /\ UNCHANGED agent_wallets

\* The job of the one-minute interval trigger: the due items are read once.
\* A scan that finds nothing due changes nothing.
check_due_payments ==
    /\ scan.pc = "idle"
    /\ scan.n < MaxScans
    /\ LET due_payments == get_due_payments(recurring_schedules, savings_plans, now)
       IN  /\ due_payments # << >>
           /\ scan' = [pc |-> "item", due |-> due_payments, i |-> 1,
                       results |-> << >>, tx |-> None, n |-> scan.n + 1]
    /\ UNCHANGED <<execDbVars, token, streak, env, vaultVars, now, monitorVars, tampered, invocation>>

\* The nonce is read and the first transaction of the item is broadcast.
first_transaction(payment, nonce) ==
    IF payment.payment_type = "vendor" THEN Transfer(payment, nonce)
    ELSE Approve(payment, nonce)

\* execute_payment from its start to the broadcast of the first transaction,
\* or to its end when the attempt ends before.
execute_payment ==
    /\ scan.pc = "item"
    /\ LET payment == scan.due[scan.i]
           agent_wallet == get_agent_wallet(agent_wallets, payment.user_address,
                                            payment.network)
           private_key == decrypt_agent_key(agent_wallet.encrypted_key)
           amount_wei == to_wei(payment.amount)
           tx == first_transaction(payment, get_transaction_count(token))
       IN  \/ /\ finish_attempt(payment, "exception", Raised, None, FALSE, 1, FALSE)
              /\ UNCHANGED token
           \/ /\ agent_wallet = None
              /\ finish_attempt(payment, "failure", "Agent wallet not found", None,
                                FALSE, 0, FALSE)
              /\ UNCHANGED token
           \/ /\ agent_wallet # None
              /\ private_key = None
              /\ finish_attempt(payment, "failure", "Failed to decrypt key", None,
                                FALSE, 0, FALSE)
              /\ UNCHANGED token
           \/ /\ agent_wallet # None
              /\ private_key # None
              /\ balanceOf(token) < amount_wei
              /\ finish_attempt(payment, "failure", "Insufficient balance", None,
                                FALSE, 0, TRUE)
              /\ UNCHANGED token
           \/ /\ agent_wallet # None
              /\ private_key # None
              /\ balanceOf(token) >= amount_wei
              /\ is_valid_destination(payment.destination, "vault").valid
              /\ \/ /\ finish_attempt(payment, "failure", "Transaction failed", None,
                                      FALSE,
                                      IF conflicting(token, tx) = {} THEN 1 ELSE 0,
                                      FALSE)
                    /\ UNCHANGED token
                 \/ /\ token' = send_raw_transaction(token, tx)
                    /\ scan' = [scan EXCEPT !.pc = IF tx.kind = "approve"
                                                   THEN "approve_sent" ELSE "sent",
                                            !.tx = tx]
                    /\ UNCHANGED <<execDbVars, streak, env>>
    /\ UNCHANGED <<vaultVars, now, monitorVars, tampered, invocation>>

\* The receipt statuses the chain can give tx: what the contract decides,
\* or 0 for a reason outside the ledger (a fault).
receipts(tok, tx) ==
    {r \in {[status |-> 1, fault |-> 0], [status |-> 0, fault |-> 0],
            [status |-> 0, fault |-> 1]} :
        /\ r.status = 1 => can_succeed(tok, tx)
        /\ (r.status = 0 /\ r.fault = 0) => ~can_succeed(tok, tx)
        /\ (r.status = 0 /\ r.fault = 1) => can_succeed(tok, tx)}

\* wait_for_transaction_receipt of the transfer or of the deposit, and the
\* rest of execute_payment.
wait_for_transaction_receipt ==
    /\ scan.pc = "sent"
    /\ LET payment == scan.due[scan.i]
           tx == scan.tx
       IN  \/ \E r \in receipts(token, tx) :
                 /\ token' = mine(token, tx, r.status)
                 /\ IF r.status = 1
                    THEN finish_attempt(payment, "success", None, tx, TRUE, 0, FALSE)
                    ELSE finish_attempt(payment, "failure", "Transaction failed", tx,
                                        FALSE, r.fault, FALSE)
           \/ /\ UNCHANGED token
              /\ finish_attempt(payment, "failure", "Transaction failed", tx, FALSE,
                                1, FALSE)
    /\ UNCHANGED <<vaultVars, now, monitorVars, tampered, invocation>>

\* deposit_to_savings after the approval is broadcast: its receipt, whose
\* status is not read, and the broadcast of the deposit with the next nonce.
deposit_to_savings ==
    /\ scan.pc = "approve_sent"
    /\ LET payment == scan.due[scan.i]
           approve_tx == scan.tx
           deposit_tx == DepositFromAgent(payment, approve_tx.nonce + 1)
       IN  \/ \E r \in receipts(token, approve_tx) :
                 LET approved == mine(token, approve_tx, r.status)
                 IN  \/ /\ token' = approved
                        /\ finish_attempt(payment, "failure", "Transaction failed",
                                          approve_tx, FALSE, r.fault + 1, FALSE)
                     \/ /\ r.fault <= env.exec
                        /\ env' = [env EXCEPT !.exec = @ - r.fault]
                        /\ token' = send_raw_transaction(approved, deposit_tx)
                        /\ scan' = [scan EXCEPT !.pc = "sent", !.tx = deposit_tx]
                        /\ UNCHANGED <<execDbVars, streak>>
           \/ /\ UNCHANGED token
              /\ finish_attempt(payment, "failure", "Transaction failed", approve_tx,
                                FALSE, 1, FALSE)
    /\ UNCHANGED <<vaultVars, now, monitorVars, tampered, invocation>>

\* A block mines a transaction the executor no longer waits for.
chain_mine ==
    /\ \E tx \in token.pool : \E r \in receipts(token, tx) :
          /\ tx.nonce = token.nonce
          /\ scan.tx # tx
          /\ r.fault <= env.exec
          /\ env' = [env EXCEPT !.exec = @ - r.fault]
          /\ token' = mine(token, tx, r.status)
    /\ UNCHANGED <<execDbVars, streak, scan, vaultVars, now, monitorVars, tampered, invocation>>

\* POST /recurring/schedules/{id}/pause and /resume
pause_recurring_schedule ==
    /\ env.user > 0
    /\ env' = [env EXCEPT !.user = @ - 1]
    /\ \E id \in ScheduleIds :
          recurring_schedules' = pause_schedule(recurring_schedules, id)
    /\ UNCHANGED <<savings_plans, agent_wallets, execution_log, notifications,
                   token, streak, scan, vaultVars, now, monitorVars, tampered, invocation>>

resume_recurring_schedule ==
    /\ env.user > 0
    /\ env' = [env EXCEPT !.user = @ - 1]
    /\ \E id \in ScheduleIds :
          /\ recurring_schedules' = resume_schedule(recurring_schedules, id)
          /\ streak' = [streak EXCEPT ![id] = 0]
    /\ UNCHANGED <<savings_plans, agent_wallets, execution_log, notifications,
                   token, scan, vaultVars, now, monitorVars, tampered, invocation>>


\* The vault and the clock.
Ledger ==
    /\ \/ \E a \in Agents, v \in Vendors, m \in Amounts : ledger_request(a, v, m)
       \/ \E id \in TxIds, k \in {"PaymentExecuted", "PaymentRevoked"} :
             ledger_settle(id, k)
       \/ \E d \in TickSteps : tick(d)
    /\ UNCHANGED <<loopVars, dbVars, monVars, execVars, tampered, invocation>>

\* A chain that only grows, by more than a chunk at a time.
LedgerIdle ==
    /\ \E n \in LedgerSteps : ledger_mine(n)
    /\ UNCHANGED <<loopVars, dbVars, monVars, execVars, tampered, invocation>>

\* What the agents table holds of an agent when the monitor starts: nothing,
\* or the profile an earlier run left after one payment of 1.
InitialProfiles ==
    {None, [total_transactions |-> 1, total_volume_wei |-> 1, avg_amount_wei |-> 1]}

\* SentinelWatchdog.__init__ and load_contract; init_db creates the tables
\* that do not exist yet and keeps the rows of those that do.
InitWatchdog(ids, profiles) ==
    /\ block_number = 0
    /\ ledger_log = << >>
    /\ now = 0
    /\ running = TRUE
    /\ last_processed_block = 0
    /\ current_retry = 0
    /\ recent_transactions = << >>
    /\ stats = [events_processed |-> 0, alerts_generated |-> 0, errors |-> 0]
    /\ pc = "loop"
    /\ cycle = [current_block |-> 0, from_block |-> 0, to_block |-> 0,
                outcome |-> "none"]
    /\ delay = 0
    /\ task_pc = [k \in {"monitor_pending", "health_reporter"} |->
                     [at |-> "test", sleep |-> 0]]
    /\ transactions = [id \in ids |-> None]
    /\ agents \in [Agents -> profiles]
    /\ vendors = [v \in Vendors |-> None]
    /\ alerts = << >>
    /\ audit_log = << >>
    /\ notified = << >>
    /\ tampered = None

InitMonitor == InitWatchdog(TxIds, InitialProfiles)

\* The tables of the executor: two daily schedules and a weekly savings
\* plan of one user, all due.
schedule_row ==
    [user_address |-> "u1", vault_address |-> "vault", vendor_address |-> "shop",
     amount |-> 5, frequency |-> "daily", execution_time |-> <<9, 0>>,
     next_execution |-> 0, is_active |-> 1, network |-> "mainnet",
     execution_count |-> 0, failed_count |-> 0, last_executed |-> None,
     last_error |-> None]

plan_row ==
    [user_address |-> "u1", vault_address |-> "vault", contract_plan_id |-> 1,
     amount |-> 5, frequency |-> "weekly", execution_time |-> <<9, 0>>,
     next_deposit |-> 0, is_recurring |-> 1, is_active |-> 1,
     deposits_completed |-> 0, total_saved |-> 0, withdrawn |-> 0,
     last_deposit |-> None, network |-> "mainnet"]

WalletRows ==
    {None,
     [agent_address |-> AgentAddress, encrypted_key |-> <<"0x", "key">>],
     [agent_address |-> AgentAddress, encrypted_key |-> <<"enc_", "bad">>]}

InitialBalances == {to_wei(2), to_wei(12)}

InitExecutor ==
    /\ recurring_schedules = [id \in ScheduleIds |-> schedule_row]
    /\ savings_plans = [id \in PlanIds |-> plan_row]
    /\ agent_wallets \in [Users \X Networks -> WalletRows]
    /\ execution_log = << >>
    /\ notifications = << >>
    /\ token \in [balance : InitialBalances, allowance : {0}, nonce : {0},
                  pool : {{}}, mined : {{}}]
    /\ scan = [pc |-> "idle", due |-> << >>, i |-> 1, results |-> << >>,
               tx |-> None, n |-> 0]
    /\ streak = [id \in ScheduleIds |-> 0]

\* The executor not started.
ExecutorOff ==
    /\ InitExecutor
    /\ agent_wallets = [w \in Users \X Networks |-> None]
    /\ token.balance = to_wei(2)

Init ==
    /\ InitMonitor
    /\ ExecutorOff
    /\ env = [errors |-> MaxErrors, chunk |-> MaxChunkFaults, exec |-> 0, user |-> 0,
              sinks |-> SinksUp]
    /\ invocation = None

\* The monitor over a vault that emits events.
Next ==
    \/ Ledger
    \/ poll_events_no_height
    \/ poll_events_idle
    \/ poll_events_chunk

Spec == Init /\ [][Next]_vars

InitLoop ==
    /\ InitMonitor
    /\ ExecutorOff
    /\ env = [errors |-> MaxLoopErrors, chunk |-> MaxChunkFaults, exec |-> 0,
              user |-> 0,
              sinks |-> SinksUp]
    /\ invocation = None

\* The polling loop over an idle vault, with the shutdown signal.
NextLoop ==
    \/ LedgerIdle
    \/ poll_events_no_height
    \/ poll_events_idle
    \/ poll_events_chunk
    \/ poll_events_exit
    \/ handle_shutdown

SpecLoop == InitLoop /\ [][NextLoop]_vars

InitExec ==
    /\ InitMonitor
    /\ agents = [a \in Agents |-> None]
    /\ InitExecutor
    /\ env = [errors |-> 0, chunk |-> 0, exec |-> MaxExecFaults, user |-> MaxUserOps,
              sinks |-> SinksUp]
    /\ invocation = None

\* The executor, its chain and its users.
NextExec ==
    \/ check_due_payments
    \/ execute_payment
    \/ wait_for_transaction_receipt
    \/ deposit_to_savings
    \/ chain_mine
    \/ pause_recurring_schedule
    \/ resume_recurring_schedule

SpecExec == InitExec /\ [][NextExec]_vars

\* ------------------------------------- the executor over stored frequencies
\* Rows whose frequency column holds a member of PaymentFrequency, a text
\* that is none, or nothing; a wallet that can pay every item; no fault.
StoredFrequencies == {"daily", "fortnightly", ""}

InitFreq ==
    /\ InitMonitor
    /\ agents = [a \in Agents |-> None]
    /\ \E f \in [ScheduleIds \cup PlanIds -> StoredFrequencies] :
          /\ recurring_schedules =
                [id \in ScheduleIds |-> [schedule_row EXCEPT !.frequency = f[id]]]
          /\ savings_plans = [id \in PlanIds |-> [plan_row EXCEPT !.frequency = f[id]]]
    /\ agent_wallets = [w \in Users \X Networks |->
                          [agent_address |-> AgentAddress,
                           encrypted_key |-> <<"0x", "key">>]]
    /\ execution_log = << >>
    /\ notifications = << >>
    /\ token = [balance |-> to_wei(30), allowance |-> 0, nonce |-> 0,
                pool |-> {}, mined |-> {}]
    /\ scan = [pc |-> "idle", due |-> << >>, i |-> 1, results |-> << >>,
               tx |-> None, n |-> 0]
    /\ streak = [id \in ScheduleIds |-> 0]
    /\ env = [errors |-> 0, chunk |-> 0, exec |-> 0, user |-> 0, sinks |-> SinksUp]
    /\ invocation = None

NextFreq ==
    \/ check_due_payments
    \/ execute_payment
    \/ wait_for_transaction_receipt
    \/ deposit_to_savings

SpecFreq == InitFreq /\ [][NextFreq]_vars

\* --------------------------------------------- update_agent_stats alone
\* Calls of update_agent_stats for an agent that has no profile yet; the
\* amounts of the calls made so far are kept with the call.
MaxStatCalls == 4
StatAmounts == {1, 2, 10}

update_agent_stats_call ==
    /\ invocation # None
    /\ invocation.fn = "update_agent_stats"
    /\ Len(invocation.amounts) < MaxStatCalls
    /\ \E amount \in StatAmounts :
          /\ agents' = update_agent_stats(agents, invocation.agent, amount)
          /\ invocation' = [invocation EXCEPT !.amounts = Append(@, amount)]
    /\ UNCHANGED <<ledgerVars, loopVars, transactions, vendors, alerts, audit_log,
                   monVars, execVars, tampered>>

InitStats ==
    /\ InitMonitor
    /\ agents = [a \in Agents |-> None]
    /\ ExecutorOff
    /\ env = [errors |-> 0, chunk |-> 0, exec |-> 0, user |-> 0, sinks |-> SinksUp]
    /\ invocation \in {[fn |-> "update_agent_stats", agent |-> a, amounts |-> << >>] :
                          a \in Agents}

NextStats == update_agent_stats_call

SpecStats == InitStats /\ [][NextStats]_vars

\* ------------------------------------------- the transactions table alone
\* insert_transaction and update_transaction_status as the monitor calls
\* them, and one statement from outside the program that rewrites one column
\* of a stored row.
Columns ==
    {"tx_id", "vault_address", "agent", "vendor", "amount_wei", "timestamp",
     "execute_after", "executed", "revoked", "reason", "risk_score",
     "risk_factors", "hash"}

\* The columns compute_hash is given by insert_transaction.
HashedColumns == {"tx_id", "agent", "vendor", "amount_wei", "timestamp"}

StoreTimes == {0, 3600}

\* Values a foreign statement writes to a column.
ForeignValues(column) ==
    CASE column = "tx_id" -> {MaxTx + 1}
      [] column \in {"agent", "vendor", "vault_address", "reason"} -> {"x"}
      [] column \in {"amount_wei", "timestamp", "execute_after", "risk_score"} -> {7}
      [] column \in {"executed", "revoked"} -> {0, 1}
      [] column = "risk_factors" -> {<<"edited">>}
      [] column = "hash" -> {<<"edited">>}

store_transaction ==
    /\ \E id \in TxIds, a \in Agents, v \in Vendors, m \in Amounts, t \in StoreTimes :
          transactions' = insert_transaction(transactions,
              [tx_id |-> id, agent |-> a, vendor |-> v, amount |-> tx_amount(m),
               timestamp |-> t, execute_after |-> t, executed |-> 0, revoked |-> 0,
               risk_score |-> 0, risk_factors |-> << >>])
    /\ UNCHANGED <<ledgerVars, loopVars, agents, vendors, alerts, audit_log, monVars,
                   execVars, tampered, invocation>>

settle_transaction ==
    /\ \E id \in TxIds :
          \/ transactions' = update_transaction_status(transactions, id, <<TRUE>>,
                                                       << >>, << >>)
          \/ transactions' = update_transaction_status(transactions, id, << >>,
                                                       <<TRUE>>, <<"owner">>)
    /\ UNCHANGED <<ledgerVars, loopVars, agents, vendors, alerts, audit_log, monVars,
                   execVars, tampered, invocation>>

alter_outside ==
    /\ tampered = None
    /\ \E id \in TxIds, column \in Columns :
          /\ transactions[id] # None
          /\ \E value \in ForeignValues(column) :
                /\ value # transactions[id][column]
                /\ transactions' = [transactions EXCEPT ![id][column] = value]
                /\ tampered' = [tx_id |-> id, column |-> column]
    /\ UNCHANGED <<ledgerVars, loopVars, agents, vendors, alerts, audit_log, monVars,
                   execVars, invocation>>

NextTamper ==
    \/ store_transaction
    \/ settle_transaction
    \/ alter_outside

SpecTamper == Init /\ [][NextTamper]_vars

\* --------------------------------------------- a monitor's first run
\* The monitor started on empty tables, with failures.
InitCount ==
    /\ InitWatchdog(TxIds, {None})
    /\ ExecutorOff
    /\ env = [errors |-> MaxErrors, chunk |-> MaxChunkFaults, exec |-> 0, user |-> 0,
              sinks |-> SinksUp]
    /\ invocation = None

SpecCount == InitCount /\ [][Next]_vars

\* The monitor, never shut down, takes the next pass of its loop; what the
\* environment makes fail is bounded, so failures eventually stop.
LedgerLive ==
    /\ \/ \E a \in Agents, v \in Vendors : ledger_request(a, v, 1)
       \/ \E id \in TxIds, k \in {"PaymentExecuted", "PaymentRevoked"} :
             ledger_settle(id, k)
    /\ UNCHANGED <<loopVars, dbVars, monVars, execVars, tampered, invocation>>

InitLive ==
    /\ InitWatchdog(TxIds, {None})
    /\ ExecutorOff
    /\ env = [errors |-> MaxLiveFaults, chunk |-> MaxLiveFaults, exec |-> 0,
              user |-> 0, sinks |-> SinksUp]
    /\ invocation = None

NextLive ==
    \/ LedgerLive
    \/ poll_events_no_height
    \/ poll_events_idle
    \/ poll_events_chunk

SpecLive ==
    /\ InitLive
    /\ [][NextLive]_vars
    /\ WF_vars(poll_events_no_height \/ poll_events_idle \/ poll_events_chunk)

\* ------------------------------------------------------ the three loops
\* The monitor started on a database that holds a pending payment of high
\* risk, two minutes before its earliest execution, over an idle vault.
PendingReview ==
    [tx_id |-> 1, agent |-> "a1", vendor |-> "v2", amount |-> tx_amount(10),
     timestamp |-> 0, execute_after |-> 120, executed |-> 0, revoked |-> 0,
     risk_score |-> 80,
     risk_factors |-> <<"amount_anomaly", "new_agent", "untrusted_vendor">>]

InitShutdown ==
    /\ block_number = 0
    /\ ledger_log = << >>
    /\ now = 0
    /\ running = TRUE
    /\ last_processed_block = 0
    /\ current_retry = 0
    /\ recent_transactions = << >>
    /\ stats = [events_processed |-> 0, alerts_generated |-> 0, errors |-> 0]
    /\ pc = "loop"
    /\ cycle = [current_block |-> 0, from_block |-> 0, to_block |-> 0,
                outcome |-> "none"]
    /\ delay = 0
    /\ task_pc = [k \in {"monitor_pending", "health_reporter"} |->
                     [at |-> "test", sleep |-> 0]]
    /\ transactions = insert_transaction([id \in TxIds |-> None], PendingReview)
    /\ agents = [a \in Agents |-> None]
    /\ vendors = [v \in Vendors |-> None]
    /\ alerts = << >>
    /\ audit_log = << >>
    /\ notified = << >>
    /\ tampered = None
    /\ ExecutorOff
    /\ env = [errors |-> MaxErrors, chunk |-> MaxChunkFaults, exec |-> 0, user |-> 0,
              sinks |-> SinksUp]
    /\ invocation = None

poll_events ==
    \/ poll_events_no_height
    \/ poll_events_idle
    \/ poll_events_chunk
    \/ poll_events_exit

NextShutdown ==
    \/ LedgerIdle
    \/ poll_events_no_height
    \/ poll_events_idle
    \/ poll_events_chunk
    \/ poll_events_exit
    \/ monitor_pending
    \/ health_reporter
    \/ \E task \in {"monitor_pending", "health_reporter"} : task_wake(task)
    \/ \E task \in {"monitor_pending", "health_reporter"} : task_exit(task)
    \/ handle_shutdown

\* asyncio runs every coroutine that is ready: each loop takes its next step.
SpecShutdown ==
    /\ InitShutdown
    /\ [][NextShutdown]_vars
    /\ WF_vars(poll_events)
    /\ WF_vars(monitor_pending \/ task_wake("monitor_pending") \/ task_exit("monitor_pending"))
    /\ WF_vars(health_reporter \/ task_wake("health_reporter") \/ task_exit("health_reporter"))

\* ------------------------------------------- calculate_risk_score alone
\* calculate_risk_score called on a profile, a trust flag, an amount and a
\* list of recent transactions, at a time t.
ScoreAgents == {"a1", "a2"}

ScoreProfiles ==
    {None,
     [total_transactions |-> 1, total_volume_wei |-> 1, avg_amount_wei |-> 1],
     [total_transactions |-> new_agent_threshold, total_volume_wei |-> 3,
      avg_amount_wei |-> 1],
     [total_transactions |-> new_agent_threshold, total_volume_wei |-> 0,
      avg_amount_wei |-> 0]}

ScoreTimes == {4000, 5000}

\* Entries of recent_transactions by age: one of agent a1 as old as the
\* rapid window is long, n of a1 and one of a2 inside the window.
WindowSizes == {0, rapid_tx_count - 1, rapid_tx_count}

Repeat(n, e) == [i \in 1 .. n |-> e]

RecentShapes ==
    {Repeat(o, [agent |-> "a1", age |-> rapid_tx_window, amount |-> 10])
     \o Repeat(n, [agent |-> "a1", age |-> 10, amount |-> m])
     \o Repeat(k, [agent |-> "a2", age |-> 10, amount |-> 10]) :
        o \in 0 .. 1, n \in WindowSizes, m \in Amounts, k \in 0 .. 1}

\* self.recent_transactions of a shape at time t.
recent_at(shape, t) ==
    [i \in 1 .. Len(shape) |->
        [tx_id |-> i, agent |-> shape[i].agent, timestamp |-> t - shape[i].age,
         amount |-> shape[i].amount]]

ScoreCalls ==
    {[fn |-> "calculate_risk_score", profile |-> p, agent |-> a, vendor |-> v,
      amount |-> m, is_trusted |-> tr, recent |-> recent_at(sh, t), t |-> t,
      result |-> None] :
        p \in ScoreProfiles, a \in ScoreAgents, v \in Vendors, m \in Amounts,
        tr \in BOOLEAN, sh \in RecentShapes, t \in ScoreTimes}

\* What calculate_risk_score returns for the arguments of c.
score_of(c) ==
    calculate_risk_score(c.profile, c.agent, c.amount, c.is_trusted,
                         prune_recent(c.recent, c.t), c.t)

score_call ==
    /\ invocation # None
    /\ invocation.fn = "calculate_risk_score"
    /\ invocation.result = None
    /\ invocation' = [invocation EXCEPT !.result = score_of(invocation)]
    /\ UNCHANGED <<ledgerVars, loopVars, dbVars, monVars, execVars, tampered>>

InitScore ==
    /\ InitMonitor
    /\ agents = [a \in Agents |-> None]
    /\ ExecutorOff
    /\ env = [errors |-> 0, chunk |-> 0, exec |-> 0, user |-> 0,
              sinks |-> SinksUp]
    /\ invocation \in ScoreCalls

NextScore == score_call

SpecScore == InitScore /\ [][NextScore]_vars

\* --------------------------------------------------- bursts of requests
\* The monitor, without failures, over a vault on which one agent requests
\* up to BurstLen payments of 1 to a trusted vendor.
BurstIds == 1 .. BurstLen
BurstTicks == {MaxBurstTime \div 2}

ledger_burst ==
    /\ Len(RequestEvents) < BurstLen
    /\ block_number' = block_number + 1
    /\ ledger_log' = Append(ledger_log,
          [event |-> "PaymentRequested", blockNumber |-> block_number + 1,
           txId |-> Len(RequestEvents) + 1, agent |-> "a1", vendor |-> "v1",
           amount |-> 1, executeAfter |-> 0, reason |-> ""])
    /\ UNCHANGED <<now, env>>

burst_tick(d) ==
    /\ now < MaxBurstTime
    /\ now' = now + d
    /\ UNCHANGED <<block_number, ledger_log, env>>

LedgerBurst ==
    /\ \/ ledger_burst
       \/ \E d \in BurstTicks : burst_tick(d)
    /\ UNCHANGED <<loopVars, dbVars, monVars, execVars, tampered, invocation>>

InitBurst ==
    /\ InitWatchdog(BurstIds, InitialProfiles)
    /\ invocation = None
    /\ ExecutorOff
    /\ env = [errors |-> 0, chunk |-> 0, exec |-> 0, user |-> 0,
              sinks |-> SinksUp]

NextBurst ==
    \/ LedgerBurst
    \/ poll_events_idle
    \/ poll_events_chunk

SpecBurst == InitBurst /\ [][NextBurst]_vars

\* The same vault watched by a monitor started on empty tables.
InitNovice ==
    /\ InitWatchdog(BurstIds, {None})
    /\ invocation = None
    /\ ExecutorOff
    /\ env = [errors |-> 0, chunk |-> 0, exec |-> 0, user |-> 0,
              sinks |-> SinksUp]

SpecNovice == InitNovice /\ [][NextBurst]_vars

\* ------------------------------------------------ the notification sinks
\* The monitor, without failures of the ledger or of the database, with
\* each sink configured or not and the configured ones changing what they
\* answer.
sink_change(sink, outcome) ==
    /\ env.sinks[sink] # "unset"
    /\ env.sinks[sink] # outcome
    /\ env' = [env EXCEPT !.sinks[sink] = outcome]
    /\ UNCHANGED <<block_number, ledger_log, now>>
    /\ UNCHANGED <<loopVars, dbVars, monVars, execVars, tampered, invocation>>

InitSinks ==
    /\ InitMonitor
    /\ ExecutorOff
    /\ invocation = None
    /\ env \in [errors : {0}, chunk : {0}, exec : {0}, user : {0},
                sinks : [{"webhook", "slack"} -> {"unset", "200"}]]

NextSinks ==
    \/ Ledger
    \/ poll_events_idle
    \/ poll_events_chunk
    \/ \E k \in {"webhook", "slack"}, o \in SinkOutcomes : sink_change(k, o)

SpecSinks == InitSinks /\ [][NextSinks]_vars

\* ------------------------------------------- retries of a critical request
\* The monitor, with failures, over a vault on which an agent with a long
\* history of small payments requests a large one to an untrusted vendor.
EstablishedProfile ==
    [total_transactions |-> 20, total_volume_wei |-> 20, avg_amount_wei |-> 1]

LargeAmount == 1000

LedgerLarge ==
    /\ \/ \E a \in Agents : ledger_request(a, "v2", LargeAmount)
       \/ \E id \in TxIds, k \in {"PaymentExecuted", "PaymentRevoked"} :
             ledger_settle(id, k)
    /\ UNCHANGED <<loopVars, dbVars, monVars, execVars, tampered, invocation>>

InitRetry ==
    /\ InitWatchdog(TxIds, {EstablishedProfile})
    /\ ExecutorOff
    /\ invocation = None
    /\ env = [errors |-> MaxErrors, chunk |-> MaxChunkFaults, exec |-> 0, user |-> 0,
              sinks |-> SinksUp]

NextRetry ==
    \/ LedgerLarge
    \/ poll_events_no_height
    \/ poll_events_idle
    \/ poll_events_chunk

SpecRetry == InitRetry /\ [][NextRetry]_vars

\* -------------------------------------------- calculate_next_date alone
\* datetime: the calendar date of a number of seconds since 1970-01-01 UTC.
IsLeap(year) == (year % 4 = 0 /\ year % 100 # 0) \/ year % 400 = 0

DaysInYear(year) == IF IsLeap(year) THEN 366 ELSE 365

DaysInMonth(year, month) ==
    CASE month = 2 -> IF IsLeap(year) THEN 29 ELSE 28
      [] month \in {4, 6, 9, 11} -> 30
      [] OTHER -> 31

RECURSIVE month_and_day(_, _, _)
month_and_day(year, month, n) ==
    IF n < DaysInMonth(year, month)
    THEN [year |-> year, month |-> month, day |-> n + 1]
    ELSE month_and_day(year, month + 1, n - DaysInMonth(year, month))

RECURSIVE date_from(_, _)
date_from(year, n) ==
    IF n < DaysInYear(year) THEN month_and_day(year, 1, n)
    ELSE date_from(year + 1, n - DaysInYear(year))

utc_date(t) == date_from(1970, t \div DaySeconds)

\* The days from 1970-01-01 to the first day of a year.
RECURSIVE days_before(_)
days_before(year) ==
    IF year = 1970 THEN 0 ELSE days_before(year - 1) + DaysInYear(year - 1)

\* datetime.utcnow() at the start, at 09:00:00 and at the last second of every
\* day of a leap year; a daily and a monthly schedule, executed at 09:00 or at
\* 23:59.
DateYear == 2024
TimesOfDay == {0, 9 * 3600, DaySeconds - 1}
DateFrequencies == {"daily", "monthly"}
ExecutionTimes == {<<9, 0>>, <<23, 59>>}

DateCalls ==
    {[fn |-> "calculate_next_date", frequency |-> f, execution_time |-> e,
      t |-> (days_before(DateYear) + d) * DaySeconds + s, result |-> None] :
        d \in 0 .. DaysInYear(DateYear) - 1, s \in TimesOfDay,
        f \in DateFrequencies, e \in ExecutionTimes}

next_date_call ==
    /\ invocation # None
    /\ invocation.fn = "calculate_next_date"
    /\ invocation.result = None
    /\ invocation' = [invocation EXCEPT !.result =
          [next_date |-> calculate_next_date(invocation.frequency,
                                             invocation.execution_time,
                                             invocation.t)]]
    /\ UNCHANGED <<ledgerVars, loopVars, dbVars, monVars, execVars, tampered>>

InitDate ==
    /\ InitMonitor
    /\ agents = [a \in Agents |-> None]
    /\ ExecutorOff
    /\ env = [errors |-> 0, chunk |-> 0, exec |-> 0, user |-> 0,
              sinks |-> SinksUp]
    /\ invocation \in DateCalls

NextDate == next_date_call

SpecDate == InitDate /\ [][NextDate]_vars

\* -------------------------------------------------------------- properties
CountAction(log, action) == Len(SelectSeq(log, LAMBDA e : e.action = action))
NewItems(old, new) == SubSeq(new, Len(old) + 1, Len(new))

\* What the handler of an event leaves in the tables.
Handled(ev) ==
    /\ transactions[ev.txId] # None
    /\ CASE ev.event = "PaymentRequested" ->
              \E i \in 1 .. Len(audit_log) :
                 /\ audit_log[i].action = "payment_requested"
                 /\ audit_log[i].entity_id = ev.txId
         [] ev.event = "PaymentExecuted" -> transactions[ev.txId].executed = 1
         [] ev.event = "PaymentRevoked" -> transactions[ev.txId].revoked = 1

AllHandled ==
    \A i \in 1 .. Len(ledger_log) :
        ledger_log[i].blockNumber <= last_processed_block => Handled(ledger_log[i])

\* C2: the cursor moves only at the end of a chunk whose every call returned,
\* to the end of that chunk, and then every event at or below it has been
\* handled; an iteration that fails leaves the cursor where it was; every
\* fetch starts right above the cursor, so the fetch after a failure starts
\* where the failed one did and reaches at least as far.
C2_CursorAfterChunk ==
    [][/\ last_processed_block' # last_processed_block =>
             /\ cycle'.outcome = "done"
             /\ cycle'.from_block = last_processed_block + 1
             /\ last_processed_block' = cycle'.to_block
             /\ AllHandled'
       /\ cycle'.outcome = "failed" => last_processed_block' = last_processed_block
       /\ (cycle' # cycle /\ cycle'.to_block > 0) =>
             cycle'.from_block = last_processed_block + 1
       /\ (cycle.outcome = "failed" /\ cycle.to_block > 0 /\ cycle'.to_block > 0) =>
             /\ cycle'.from_block = cycle.from_block
             /\ cycle'.to_block >= cycle.to_block]_vars

\* A chunk whose request was handled to its end failed later and was fetched
\* again to its end.
C2_Witness ==
    /\ cycle.outcome = "done"
    /\ stats.errors > 0
    /\ last_processed_block > 0
    /\ CountAction(audit_log, "payment_requested") >= 2

\* C6: the loop is left only with the running flag cleared; a failure that
\* finds the retry budget spent leaves the loop running, resets the backoff
\* counter and sleeps 60 seconds.
C6_LoopSurvivesFailures ==
    [][/\ pc' = "exited" => ~running
       /\ (stats'.errors > stats.errors /\ current_retry >= RetryMaxRetries) =>
             /\ pc' = "loop"
             /\ running'
             /\ current_retry' = 0
             /\ delay' = ExhaustedDelay]_vars

\* The failure after five consecutive ones has been taken and the loop polled
\* again.
C6_Witness ==
    /\ stats.errors > RetryMaxRetries + 1
    /\ current_retry = 1
    /\ pc = "loop"
    /\ running

\* C7: the cursor never decreases; a new value is greater than the one
\* before and at most the height read in the iteration that sets it.
C7_CursorMonotonic ==
    [][/\ last_processed_block' >= last_processed_block
       /\ last_processed_block' # last_processed_block =>
             /\ last_processed_block' > last_processed_block
             /\ cycle'.current_block = block_number
             /\ last_processed_block' <= cycle'.current_block]_vars

\* The cursor after a chunk of the full span, below the height.
C7_Witness ==
    /\ cycle.outcome = "done"
    /\ last_processed_block = ChunkSpan + 1
    /\ block_number > last_processed_block

\* C8: the hash stored with every row of transactions is the hash recomputed
\* from the row's tx_id, agent, vendor, amount and timestamp.
C8_StoredHashVerifies ==
    \A id \in TxIds :
        transactions[id] # None => verify_transaction_integrity(transactions, id)

\* A row inserted twice, by the retry of its chunk, and updated.
C8_Witness ==
    \E id \in TxIds :
        /\ transactions[id] # None
        /\ transactions[id].executed = 1
        /\ CountAction(audit_log, "payment_requested") >= 2
        /\ CountAction(audit_log, "payment_executed") >= 1

C9_AnyColumnDetected ==
    tampered # None => ~verify_transaction_integrity(transactions, tampered.tx_id)

\* C9: a change from outside of tx_id, agent, vendor, amount, timestamp or
\* of the stored hash makes the row fail verification; a change of any other
\* column leaves it verifying.
C9_HashedColumnDetected ==
    tampered # None =>
        (tampered.column \in HashedColumns \cup {"hash"}
            <=> ~verify_transaction_integrity(transactions, tampered.tx_id))

\* The vendor of a stored row was rewritten and the row fails verification.
C9_Witness ==
    /\ tampered # None
    /\ tampered.column = "vendor"
    /\ transactions[tampered.tx_id].executed = 1
    /\ ~verify_transaction_integrity(transactions, tampered.tx_id)

\* C1 as stated: a schedule whose last three attempts failed, with no payment
\* and no resume since, is inactive, and a scan does not select it.
C1_DeactivatedAfterThree ==
    \A id \in ScheduleIds :
        streak[id] >= MaxFailures =>
            /\ recurring_schedules[id].is_active = 0
            /\ \A i \in 1 .. Len(scan.due) : scan.pc = "item" /\ i >= scan.i
                                              => scan.due[i].id # id

\* C3 as stated: a scan that is over has attempted every item it found due.
C3_EveryItemAttempted ==
    scan.pc = "idle" => Len(scan.results) = Len(scan.due)

\* The item execute_payment is about to start has a wallet, a key that
\* decrypts and a token balance below its amount.
LowBalanceCase ==
    /\ scan.pc = "item"
    /\ LET payment == scan.due[scan.i]
           agent_wallet == get_agent_wallet(agent_wallets, payment.user_address,
                                            payment.network)
       IN  /\ agent_wallet # None
           /\ decrypt_agent_key(agent_wallet.encrypted_key) # None
           /\ balanceOf(token) < to_wei(payment.amount)

\* C4 as stated: the attempt on an item whose wallet balance is below its
\* amount broadcasts nothing, adds exactly 1 to the failed_count of the
\* schedule, adds exactly one low_balance notification and leaves the next
\* execution time as it was.
C4_LowBalanceAttempt ==
    [][(LowBalanceCase /\ Len(scan'.results) = Len(scan.results) + 1) =>
          LET id == scan.due[scan.i].id
          IN  /\ token' = token
              /\ id \in ScheduleIds =>
                    /\ recurring_schedules'[id].failed_count
                          = recurring_schedules[id].failed_count + 1
                    /\ recurring_schedules'[id].next_execution
                          = recurring_schedules[id].next_execution
              /\ id \in PlanIds =>
                    savings_plans'[id].next_deposit = savings_plans[id].next_deposit
              /\ Len(notifications') = Len(notifications) + 1
              /\ notifications'[Len(notifications')].notification_type
                    = "low_balance"]_vars

\* C5 as stated: when execute_payment reads the nonce of the wallet and
\* broadcasts, no earlier transaction of that wallet is still unconfirmed.
C5_NonceAfterConfirmation ==
    [][(scan.tx = None /\ scan'.tx # None) =>
          \A p \in token.pool : p.sender # scan'.tx.sender]_vars

\* calculate_risk_score has returned.
Scored ==
    /\ invocation # None
    /\ invocation.fn = "calculate_risk_score"
    /\ invocation.result # None

Factors == {invocation.result.risk_factors[i] :
               i \in 1 .. Len(invocation.result.risk_factors)}

\* The transactions of the agent of c inside the rapid window, by age.
window_by_age(c) ==
    LET Mine(tx) == tx.agent = c.agent /\ c.t - tx.timestamp < rapid_tx_window
        window == SelectSeq(c.recent, Mine)
    IN  [i \in 1 .. Len(window) |->
            [age |-> c.t - window[i].timestamp, amount |-> window[i].amount]]

\* C11: whatever the profile, the trust flag, the amount and the recent
\* transactions, the score returned is at least 0 and at most 1.
C11_ScoreInUnitInterval ==
    Scored => /\ invocation.result.risk_score >= 0
              /\ invocation.result.risk_score <= ScoreCap

\* Five factors, whose weights sum to 1.2, were triggered at once.
C11_Witness ==
    /\ Scored
    /\ Len(invocation.result.risk_factors) = 5
    /\ invocation.result.risk_score = ScoreCap

\* C12: a factor list never holds both unknown_agent and new_agent;
\* unknown_agent is in it exactly when the agent has no profile, new_agent
\* exactly when it has one with fewer than 3 transactions.
C12_UnknownOrNew ==
    Scored =>
       /\ ~("unknown_agent" \in Factors /\ "new_agent" \in Factors)
       /\ "unknown_agent" \in Factors <=> invocation.profile = None
       /\ "new_agent" \in Factors <=>
             /\ invocation.profile # None
             /\ invocation.profile.total_transactions < new_agent_threshold

\* An agent with a profile of one transaction was scored new_agent.
C12_Witness ==
    /\ Scored
    /\ invocation.profile # None
    /\ "new_agent" \in Factors

\* C14: a call with the same profile, trust flag and amount and the same
\* transactions of the agent inside the window, by age, returns the same
\* score and the same factor list, whatever the vendor, the time of the
\* call, the transactions of other agents and those outside the window.
C14_ScoreDependsOnInputsOnly ==
    Scored =>
       \A c \in ScoreCalls :
          (/\ c.profile = invocation.profile
           /\ c.is_trusted = invocation.is_trusted
           /\ c.amount = invocation.amount
           /\ window_by_age(c) = window_by_age(invocation))
          => score_of(c) = invocation.result

\* A call of agent a1 returned while the list held a transaction of a2 and
\* one of a1 older than the window.
C14_Witness ==
    /\ Scored
    /\ invocation.agent = "a1"
    /\ Len(invocation.recent) > Len(window_by_age(invocation)) + 1
    /\ Len(window_by_age(invocation)) >= rapid_tx_count

\* C15: an agent without a profile, an untrusted vendor and no recent
\* transaction of the agent give the factors unknown_agent and
\* untrusted_vendor, no other, and a score of at least 0.5, which
\* process_payment_request classifies as medium risk.
C15_UnknownUntrusted ==
    (/\ Scored
     /\ invocation.profile = None
     /\ ~invocation.is_trusted
     /\ window_by_age(invocation) = << >>)
    => /\ invocation.result.risk_factors = <<"unknown_agent", "untrusted_vendor">>
       /\ invocation.result.risk_score >= 50
       /\ invocation.result.risk_score
             = unknown_agent_weight + untrusted_vendor_weight
       /\ classify(invocation.result.risk_score)
             = <<"medium_risk", "warning", FALSE>>

\* Such a call has returned.
C15_Witness ==
    /\ Scored
    /\ invocation.profile = None
    /\ ~invocation.is_trusted
    /\ window_by_age(invocation) = << >>
    /\ invocation.result.risk_score = 55

\* The stored requests of the agent of row id handled up to it and less than
\* rapid_tx_window seconds before it, itself included.
burst_of(id) ==
    {j \in BurstIds :
        /\ j <= id
        /\ transactions[j] # None
        /\ transactions[j].agent = transactions[id].agent
        /\ transactions[id].timestamp - transactions[j].timestamp < rapid_tx_window}

\* C13 as stated: a request that is the 5th or a later one of its agent
\* within 300 seconds is stored with rapid_transactions among its factors.
C13_BurstFlagged ==
    \A id \in BurstIds :
        (transactions[id] # None /\ Cardinality(burst_of(id)) >= rapid_tx_count)
        => \E i \in 1 .. Len(transactions[id].risk_factors) :
              transactions[id].risk_factors[i] = "rapid_transactions"

\* The transactions of an attempt that ended with tx: tx and, before a
\* deposit, the approval that took the nonce before it.
attempt_transactions(tx) ==
    IF tx = None THEN {}
    ELSE {tx} \cup (IF tx.kind = "deposit"
                    THEN {[tx EXCEPT !.kind = "approve", !.nonce = @ - 1]}
                    ELSE {})

\* C16 as stated: no attempt one of whose transactions (transfer, approval
\* or deposit) has a receipt of status 0 is booked as a success.
C16_FailedReceiptFails ==
    \A i \in 1 .. Len(scan.results) :
        scan.results[i].how = "success" =>
            \A rec \in token.mined :
                rec.tx \in attempt_transactions(scan.results[i].tx) => rec.status = 1

\* notify was called in the step.
Notified == Len(notified') > Len(notified)

\* C17: a call of notify attempts every configured sink once, both when
\* both are configured, whatever each of them answers, and returns: the
\* handler goes on to its audit entry and the chunk ends without an error.
C17_SinksIndependent ==
    [][Notified =>
         \A j \in Len(notified) + 1 .. Len(notified') :
            LET n == notified'[j]
                of_event(log) == Len(SelectSeq(log, LAMBDA e :
                                   e.action = "payment_requested" /\ e.entity_id = n.tx_id))
            IN  /\ \A k \in {"webhook", "slack"} :
                      Cardinality({i \in 1 .. Len(n.attempts) : n.attempts[i].sink = k})
                         = (IF env.sinks[k] = "unset" THEN 0 ELSE 1)
                /\ (env.sinks["webhook"] # "unset" /\ env.sinks["slack"] # "unset")
                      => Len(n.attempts) = 2
                /\ cycle'.outcome = "done"
                /\ of_event(audit_log') = of_event(audit_log) + 1]_vars

\* notify has run with the webhook timing out and the chat sink answering
\* 200.
C17_Witness ==
    /\ Len(notified) = 1
    /\ Len(notified[1].attempts) = 2
    /\ ~notified[1].attempts[1].result
    /\ notified[1].attempts[2].result
    /\ env.sinks["webhook"] = "TimeoutError"
    /\ cycle.outcome = "done"

\* C19: whatever the sinks answer to the notification of a request scored
\* critical, its transaction row and its critical alert are stored, no
\* polling error is counted and the cursor moves to the end of the chunk.
C19_SinkFailureIgnored ==
    [][Notified =>
         LET id == notified'[Len(notified')].tx_id
             new_alerts == NewItems(alerts, alerts')
         IN  /\ transactions'[id] # None
             /\ \E i \in 1 .. Len(new_alerts) :
                   new_alerts[i].tx_id = id /\ new_alerts[i].severity = "critical"
             /\ stats'.errors = stats.errors
             /\ last_processed_block' = cycle'.to_block
             /\ last_processed_block' > last_processed_block]_vars

\* The notification of a stored critical alert failed at both sinks and the
\* cursor has moved.
C19_Witness ==
    /\ Len(notified) = 1
    /\ Len(notified[1].attempts) = 2
    /\ \A i \in 1 .. 2 : ~notified[1].attempts[i].result
    /\ transactions[notified[1].tx_id] # None
    /\ \E i \in 1 .. Len(alerts) : alerts[i].severity = "critical"
    /\ stats.errors = 0
    /\ last_processed_block > 0

\* C18 as stated: over a run of the monitor with failed and retried
\* chunks, notify is called at most once for a PaymentRequested event.
C18_NotifiedOncePerEvent ==
    \A id \in TxIds :
        Cardinality({i \in 1 .. Len(notified) : notified[i].tx_id = id}) <= 1

\* C20 as stated: for frequency monthly and every current date of a year,
\* the date returned is a calendar date whose day of the month is in 1..28.
C20_MonthlyDayClamped ==
    (/\ invocation # None
     /\ invocation.fn = "calculate_next_date"
     /\ invocation.frequency = "monthly"
     /\ invocation.result # None)
    => LET date == utc_date(invocation.result.next_date)
       IN  /\ date.month \in 1 .. 12
           /\ date.day \in 1 .. DaysInMonth(date.year, date.month)
           /\ date.day \in 1 .. 28

\* The calendar day that follows a date.
day_after(date) ==
    IF date.day < DaysInMonth(date.year, date.month) THEN [date EXCEPT !.day = @ + 1]
    ELSE IF date.month < 12 THEN [date EXCEPT !.month = @ + 1, !.day = 1]
    ELSE [year |-> date.year + 1, month |-> 1, day |-> 1]

\* calculate_next_date has returned for a daily schedule.
DailyReturned ==
    /\ invocation # None
    /\ invocation.fn = "calculate_next_date"
    /\ invocation.frequency = "daily"
    /\ invocation.result # None

\* C21: for a daily schedule the date returned is on the calendar day after
\* the day of the call, at HH:MM:00 of the execution time, whatever the time
\* of day of the call; a call made at HH:MM:00 gets exactly 24 hours later.
C21_DailyNextDay ==
    DailyReturned =>
        LET t == invocation.t
            next_date == invocation.result.next_date
            at == invocation.execution_time[1] * 3600 + invocation.execution_time[2] * 60
        IN  /\ utc_date(next_date) = day_after(utc_date(t))
            /\ next_date % DaySeconds = at
            /\ t % DaySeconds = at => next_date = t + 24 * 3600

\* A daily schedule of 09:00 executed at 23:59:59 on the last day of a month
\* of 29 days: the date returned is 09:00 of the first of March.
C21_Witness ==
    /\ DailyReturned
    /\ invocation.execution_time = <<9, 0>>
    /\ invocation.t % DaySeconds = DaySeconds - 1
    /\ utc_date(invocation.t) = [year |-> DateYear, month |-> 2, day |-> 29]
    /\ utc_date(invocation.result.next_date) = [year |-> DateYear, month |-> 3, day |-> 1]

\* The stored frequency of a due item, and its stored next date.
stored_frequency(id) ==
    IF id \in ScheduleIds THEN recurring_schedules[id].frequency
    ELSE savings_plans[id].frequency

next_due(schedules, plans, id) ==
    IF id \in ScheduleIds THEN schedules[id].next_execution ELSE plans[id].next_deposit

\* C22: a scan loads every due row whose stored frequency is no member of
\* PaymentFrequency, as an item of frequency monthly; such an item is
\* attempted, and when its next date is written it is the date
\* calculate_next_date returns for monthly.
C22_UnknownFrequencyIsMonthly ==
    [][\A id \in ScheduleIds \cup PlanIds :
          stored_frequency(id) \notin PaymentFrequencies =>
             /\ (scan'.n = scan.n + 1 /\ next_due(recurring_schedules, savings_plans, id) <= now)
                    => \E i \in 1 .. Len(scan'.due) :
                          /\ scan'.due[i].id = id
                          /\ scan'.due[i].frequency = "monthly"
             /\ next_due(recurring_schedules', savings_plans', id)
                   # next_due(recurring_schedules, savings_plans, id)
                    => next_due(recurring_schedules', savings_plans', id)
                         = calculate_next_date("monthly", <<9, 0>>, now)]_vars

\* A schedule stored with a frequency that is no member and a plan stored
\* with none have both been paid and moved thirty days ahead.
C22_Witness ==
    /\ recurring_schedules[<<"sched_", 1>>].frequency = "fortnightly"
    /\ recurring_schedules[<<"sched_", 1>>].execution_count = 1
    /\ recurring_schedules[<<"sched_", 1>>].next_execution = 30 * DaySeconds + 9 * 3600
    /\ savings_plans[<<"plan_", 1>>].frequency = ""
    /\ savings_plans[<<"plan_", 1>>].deposits_completed = 1
    /\ savings_plans[<<"plan_", 1>>].next_deposit = 30 * DaySeconds + 9 * 3600

\* The sum of a sequence of amounts.
RECURSIVE sum_of(_)
sum_of(amounts) == IF amounts = << >> THEN 0 ELSE Head(amounts) + sum_of(Tail(amounts))

\* C23: after n >= 1 calls of update_agent_stats for an agent, its profile
\* exists with total_transactions = n, total_volume = the sum of the amounts
\* and avg_amount = the floor of their mean; a profile that exists is
\* never removed.
C23_ProfileAccumulates ==
    [][(invocation' # None /\ invocation'.fn = "update_agent_stats") =>
          LET amounts == invocation'.amounts
              profile == get_agent_profile(agents', invocation'.agent)
          IN  /\ Len(amounts) >= 1 =>
                    /\ profile # None
                    /\ profile.total_transactions = Len(amounts)
                    /\ profile.total_volume_wei = sum_of(amounts)
                    /\ profile.avg_amount_wei = sum_of(amounts) \div Len(amounts)
              /\ \A a \in Agents : agents[a] # None => agents'[a] # None]_vars

\* Three calls whose amounts have a mean that is not a whole number.
C23_Witness ==
    /\ invocation # None
    /\ invocation.fn = "update_agent_stats"
    /\ invocation.amounts = <<1, 2, 2>>
    /\ agents[invocation.agent] = [total_transactions |-> 3, total_volume_wei |-> 5,
                                   avg_amount_wei |-> 1]

\* The vendor transfers of a schedule that were broadcast and are pending or
\* mined.
transfers_of(id) ==
    {tx \in token.pool \cup {rec.tx : rec \in token.mined} :
        tx.kind = "transfer" /\ tx.item = id}

\* C24 as stated: a schedule has at most one vendor transfer broadcast for
\* each of its due occurrences: those its execution_count records as paid,
\* and the one that is due.
C24_OneTransferPerOccurrence ==
    \A id \in ScheduleIds :
        Cardinality(transfers_of(id)) <= recurring_schedules[id].execution_count + 1

\* C25 as stated: a schedule that is inactive becomes active only by a
\* resume request of its user, never by a step of the executor.
C25_OnlyResumeActivates ==
    [][\A id \in ScheduleIds :
          (recurring_schedules[id].is_active = 0 /\ recurring_schedules'[id].is_active = 1)
             => env'.user < env.user]_vars

\* C26 as stated: when the attempt on a due item ends with its success
\* logged, the next date of the item is later than the time of the execution,
\* and the item is not due.
C26_SuccessMovesNextDate ==
    [][(/\ Len(execution_log') = Len(execution_log) + 1
        /\ execution_log'[Len(execution_log')].status = "success")
          => LET id == scan.due[scan.i].id
             IN  /\ next_due(recurring_schedules', savings_plans', id) > now
                 /\ \A i \in 1 .. Len(get_due_payments(recurring_schedules',
                                                        savings_plans', now)) :
                        get_due_payments(recurring_schedules', savings_plans', now)[i].id
                           # id]_vars

\* The first step of the pipeline that fails for the item at hand: the error
\* it books, or "" when the wallet is found, its key is stored in the clear
\* and the balance covers the amount.
first_failure(payment) ==
    LET wallet == agent_wallets[<<payment.user_address, payment.network>>]
    IN  IF wallet = None THEN "Agent wallet not found"
        ELSE IF wallet.encrypted_key[1] # "0x" THEN "Failed to decrypt key"
        ELSE IF token.balance < payment.amount * WeiPerToken THEN "Insufficient balance"
        ELSE ""

\* C27: execute_payment broadcasts the first transaction of an item only
\* when no step of the pipeline fails for it; when one fails, the attempt
\* ends in that step with nothing broadcast, with the failure of that step
\* (or an exception) booked and no notification of a later step, and the
\* scan never attempts an item twice.
C27_PipelineInOrder ==
    [][scan.pc = "item" =>
          LET payment == scan.due[scan.i]
              ended == Len(scan'.results) = Len(scan.results) + 1
              result == scan'.results[Len(scan'.results)]
          IN  /\ (scan'.tx # None \/ token' # token) => first_failure(payment) = ""
              /\ (ended /\ first_failure(payment) # "") =>
                    /\ token' = token
                    /\ result.tx = None /\ ~result.confirmed
                    /\ result.how = "failure" => result.error = first_failure(payment)
                    /\ result.how \in {"failure", "exception"}
                    /\ \A i \in 1 .. Len(NewItems(execution_log, execution_log')) :
                          NewItems(execution_log, execution_log')[i].status = "failed"
                    /\ first_failure(payment) # "Insufficient balance"
                          => notifications' = notifications
              /\ ended => \A i \in 1 .. Len(scan.results) :
                             scan.results[i].id # payment.id]_vars

\* An item whose wallet holds a key that does not decrypt has ended with that
\* failure booked and nothing broadcast.
C27_Witness ==
    /\ Len(scan.results) >= 1
    /\ scan.results[1].how = "failure"
    /\ scan.results[1].error = "Failed to decrypt key"
    /\ Len(execution_log) >= 1
    /\ execution_log[1].error_message = "Failed to decrypt key"
    /\ token.pool = {} /\ token.mined = {}

\* C28 as stated: the step that logs the success of a recurring schedule
\* leaves it with failed_count 0, no last_error, one more execution and a
\* new next_execution; and a step of the executor deactivates a schedule
\* only when its last three attempts have failed.
C28_SuccessResetsFailures ==
    [][\A id \in ScheduleIds :
          /\ (/\ scan.pc \in {"item", "sent"}
              /\ scan.due[scan.i].id = id
              /\ Len(execution_log') = Len(execution_log) + 1
              /\ execution_log'[Len(execution_log')].status = "success")
                => /\ recurring_schedules'[id].failed_count = 0
                   /\ recurring_schedules'[id].last_error = None
                   /\ recurring_schedules'[id].execution_count
                         = recurring_schedules[id].execution_count + 1
                   /\ recurring_schedules'[id].next_execution
                         # recurring_schedules[id].next_execution
          /\ (/\ recurring_schedules[id].is_active = 1
              /\ recurring_schedules'[id].is_active = 0
              /\ env'.user = env.user)
                => streak'[id] >= MaxFailures]_vars

\* C29 as stated: the step that ends an attempt appends exactly one entry to
\* the execution log, of status success when the attempt obtained the hash
\* of a transaction confirmed with status 1 and of status failed otherwise;
\* no other step appends to the log.
C29_OneLogEntryPerAttempt ==
    [][IF Len(scan'.results) = Len(scan.results) + 1
       THEN /\ Len(execution_log') = Len(execution_log) + 1
            /\ SubSeq(execution_log', 1, Len(execution_log)) = execution_log
            /\ execution_log'[Len(execution_log')].status
                  = (IF scan'.results[Len(scan'.results)].confirmed THEN "success"
                     ELSE "failed")
       ELSE scan'.n = scan.n => execution_log' = execution_log]_vars

\* C30: the approval of a savings deposit is broadcast with the nonce the
\* wallet has at that time; the deposit is broadcast only in a step in which
\* the receipt of that approval has arrived, from the same wallet and with
\* the nonce that follows the approval's; and every deposit ever broadcast
\* has its approval mined with the nonce before its own.
C30_ApproveThenDeposit ==
    [][/\ (scan.tx = None /\ scan'.tx # None /\ scan'.tx.kind = "approve")
             => scan'.tx.nonce = token.nonce
       /\ (scan'.tx # None /\ scan'.tx.kind = "deposit" /\ scan'.tx # scan.tx)
             => /\ scan.tx # None /\ scan.tx.kind = "approve"
                /\ \E rec \in token'.mined : rec.tx = scan.tx
                /\ scan'.tx.sender = scan.tx.sender
                /\ scan'.tx.item = scan.tx.item
                /\ scan'.tx.nonce = scan.tx.nonce + 1
       /\ \A d \in token'.pool \cup {rec.tx : rec \in token'.mined} :
             d.kind = "deposit"
                => \E rec \in token'.mined :
                      /\ rec.tx.kind = "approve"
                      /\ rec.tx.sender = d.sender
                      /\ rec.tx.item = d.item
                      /\ rec.tx.nonce + 1 = d.nonce]_vars

\* After a transfer of the same wallet, the approval of the plan was mined
\* with nonce 1 and its deposit with nonce 2.
C30_Witness ==
    /\ \E rec \in token.mined :
          rec.tx.kind = "approve" /\ rec.tx.nonce = 1 /\ rec.status = 1
    /\ \E rec \in token.mined :
          rec.tx.kind = "deposit" /\ rec.tx.nonce = 2 /\ rec.status = 1

\* The step is an iteration of poll_events that fetched a chunk.
FetchedChunk ==
    /\ pc = "loop" /\ pc' = "loop"
    /\ running /\ running'
    /\ block_number' = block_number
    /\ block_number > last_processed_block
    /\ cycle'.to_block > 0

\* C31 as stated: every fetch covers the blocks from cursor + 1 to
\* min(cursor + 100, height): never more than 100 blocks, never a block
\* above the height read in the iteration.
C31_FetchWithinSpan ==
    [][FetchedChunk =>
          /\ cycle'.from_block = last_processed_block + 1
          /\ cycle'.to_block = Min(last_processed_block + ChunkSpan, cycle'.current_block)
          /\ cycle'.to_block - cycle'.from_block + 1 <= ChunkSpan
          /\ cycle'.to_block <= cycle'.current_block]_vars

\* The seconds slept before the first, second, ... retry.
BackoffSeconds == <<1, 2, 4, 8, 16>>

\* C32: the retry counter stays within 0 .. 5; the failure that starts retry
\* k sleeps min(base * 2^(k-1), max) seconds, that is 1, 2, 4, 8, 16; a failure
\* that finds the budget spent sleeps 60 seconds and the next one starts at 1
\* second again; a chunk processed in full resets the counter to 0.
C32_ExponentialBackoff ==
    [][/\ current_retry \in 0 .. RetryMaxRetries
       /\ current_retry' \in 0 .. RetryMaxRetries
       /\ stats'.errors > stats.errors =>
             IF current_retry < RetryMaxRetries
             THEN /\ current_retry' = current_retry + 1
                  /\ delay' = BackoffSeconds[current_retry']
                  /\ delay' = Min(RetryBaseDelay * Pow2(current_retry' - 1), RetryMaxDelay)
             ELSE /\ current_retry' = 0
                  /\ delay' = 60
       /\ (FetchedChunk /\ cycle'.outcome = "done") => current_retry' = 0
       /\ current_retry' # current_retry =>
             \/ stats'.errors > stats.errors
             \/ FetchedChunk /\ cycle'.outcome = "done"]_vars

\* The first failure after the 60-second sleep: the backoff is at 1 second again.
C32_Witness ==
    /\ stats.errors = RetryMaxRetries + 2
    /\ cycle.outcome = "failed"
    /\ current_retry = 1
    /\ delay = BackoffSeconds[1]

\* The step is an iteration of poll_events in which a get_logs call raised
\* BlockNotFound.
BlockNotFoundRaised ==
    /\ FetchedChunk
    /\ env'.chunk < env.chunk
    /\ env'.errors = env.errors

\* C33: an iteration whose fetch raises BlockNotFound leaves the cursor and
\* the retry counter as they were, counts no polling error and sleeps 5
\* seconds; the fetch after a failed one starts at cursor + 1 again, the same
\* first block; the cursor moves only in an iteration that processed its
\* chunk in full.
C33_BlockNotFoundRetriesRange ==
    [][/\ BlockNotFoundRaised =>
             /\ last_processed_block' = last_processed_block
             /\ current_retry' = current_retry
             /\ stats'.errors = stats.errors
             /\ delay' = 5
             /\ pc' = "loop"
       /\ (FetchedChunk /\ cycle.to_block > 0 /\ cycle.outcome # "done") =>
             /\ cycle'.from_block = last_processed_block + 1
             /\ cycle'.from_block = cycle.from_block
       /\ (FetchedChunk /\ cycle'.outcome # "done") =>
             /\ last_processed_block' = last_processed_block
             /\ last_processed_block' < cycle'.from_block]_vars

\* The range of a fetch that raised BlockNotFound has been requested again
\* and processed: no error was counted and the cursor is at its end.
C33_Witness ==
    /\ env.chunk < MaxChunkFaults
    /\ env.errors = MaxErrors
    /\ stats.errors = 0
    /\ current_retry = 0
    /\ cycle.outcome = "done"
    /\ last_processed_block = cycle.to_block
    /\ \E id \in DOMAIN transactions : transactions[id] # None

AllExited ==
    /\ pc = "exited"
    /\ \A task \in DOMAIN task_pc : task_pc[task].at = "exited"

WrittenOnce ==
    {"tx_id", "agent", "vendor", "amount_wei", "timestamp", "execute_after",
     "risk_score", "risk_factors", "hash"}

\* C35: a stored TransactionRecord stays stored, and no step of the monitor
\* (a PaymentExecuted or PaymentRevoked event, or the record's
\* PaymentRequested event processed again) changes its agent, vendor,
\* amount, timestamp, earliest-execution time, risk score, risk factors or
\* hash.
C35_RecordFrame ==
    [][\A id \in DOMAIN transactions :
          transactions[id] # None =>
             /\ transactions'[id] # None
             /\ \A column \in WrittenOnce :
                   transactions'[id][column] = transactions[id][column]]_vars

\* The PaymentRequested event of an agent without a profile was processed
\* twice (the profile counts it twice) and the record kept the factors of
\* the first scoring.
C35_Witness ==
    /\ \E id \in DOMAIN transactions :
          /\ transactions[id] # None
          /\ transactions[id].risk_factors # << >>
          /\ transactions[id].risk_factors[1] = "unknown_agent"
          /\ agents[transactions[id].agent] # None
          /\ agents[transactions[id].agent].total_transactions = 2
    /\ Len(RequestEvents) = 1

\* The PaymentRequested events up to the cursor that satisfy `of`.
counted(of(_)) ==
    SelectSeq(ledger_log, LAMBDA e : /\ e.event = "PaymentRequested"
                                     /\ e.blockNumber <= last_processed_block
                                     /\ of(e))

\* C36 as stated: when a chunk has been processed in full, the profile of
\* each agent counts each PaymentRequested event of the agent up to the
\* cursor once, and sums their amounts; so does the record of each vendor.
C36_EventsCountedOnce ==
    cycle.outcome = "done" =>
       /\ \A a \in Agents :
             LET events == counted(LAMBDA e : e.agent = a)
             IN  IF agents[a] = None THEN events = << >>
                 ELSE /\ agents[a].total_transactions = Len(events)
                      /\ agents[a].total_volume_wei = SumAmount(events)
       /\ \A v \in Vendors :
             LET events == counted(LAMBDA e : e.vendor = v)
             IN  IF vendors[v] = None THEN events = << >>
                 ELSE /\ vendors[v].transaction_count = Len(events)
                      /\ vendors[v].total_received_wei = SumAmount(events)

\* C37 as stated: a flag of a TransactionRecord that is 1 stays 1 in every
\* step of the monitor, and a record with a flag set is never among the
\* pending transactions again.
C37_FlagsMonotonic ==
    [][\A id \in DOMAIN transactions :
          transactions[id] # None =>
             /\ transactions[id].executed = 1 => transactions'[id].executed = 1
             /\ transactions[id].revoked = 1 => transactions'[id].revoked = 1
             /\ id \notin pending_rows(transactions) =>
                   id \notin pending_rows(transactions')]_vars

\* The blocks the vault can reach: a request and a settlement per payment,
\* one block each.
ReachedBlocks == 1 .. 2 * MaxTx

\* Every PaymentRequested event of block b has its TransactionRecord.
Persisted(b) ==
    \A i \in 1 .. Len(ledger_log) :
       (ledger_log[i].event = "PaymentRequested" /\ ledger_log[i].blockNumber = b)
       => transactions[ledger_log[i].txId] # None

\* C38: with failures that eventually stop and no shutdown, every block the
\* chain reaches above the cursor's start is eventually at or below the
\* cursor, and by then every PaymentRequested event of the block has a
\* stored TransactionRecord.
C38_EveryBlockProcessed ==
    \A b \in ReachedBlocks :
       (block_number >= b) ~> (last_processed_block >= b /\ Persisted(b))

\* The cursor has caught up with a chain that holds a request, after the
\* failures the environment had in store, and the request is stored.
C38_Witness ==
    /\ env.errors = 0
    /\ env.chunk = 0
    /\ block_number > 0
    /\ last_processed_block = block_number
    /\ RequestEvents # << >>
    /\ \A b \in 1 .. block_number : Persisted(b)

\* The rank of request id among the requests of its agent, in ledger order.
rank_of(id) ==
    Cardinality({j \in 1 .. id : RequestEvents[j].agent = RequestEvents[id].agent})

factors_of(id) ==
    {transactions[id].risk_factors[i] : i \in 1 .. Len(transactions[id].risk_factors)}

\* C39: with every event processed once and no profile at the start, the
\* first PaymentRequested event of an agent is stored with unknown_agent
\* and without new_agent, the second and the third with new_agent and
\* without unknown_agent, the fourth and later ones with neither.
C39_NoviceFactors ==
    \A id \in BurstIds :
       transactions[id] # None =>
          /\ "unknown_agent" \in factors_of(id) <=> rank_of(id) = 1
          /\ "new_agent" \in factors_of(id) <=> rank_of(id) \in {2, 3}

\* The first four requests of the agent are stored.
C39_Witness ==
    /\ \A id \in 1 .. 4 : transactions[id] # None
    /\ rank_of(4) = 4
    /\ agents["a1"].total_transactions >= 4
    /\ factors_of(4) \cap {"unknown_agent", "new_agent"} = {}

\* The step ends an attempt on savings plan id that obtained no hash.
FailedDeposit(id) ==
    /\ scan.pc # "idle"
    /\ scan.due[scan.i].id = id
    /\ Len(scan'.results) = Len(scan.results) + 1
    /\ scan'.results[Len(scan'.results)].how # "success"

due_ids(schedules, plans, t) ==
    {get_due_payments(schedules, plans, t)[i].id :
        i \in 1 .. Len(get_due_payments(schedules, plans, t))}

\* C40 as stated: the step that ends a failed savings-deposit attempt leaves
\* the savings plan as it was and appends one entry to the execution log, a
\* failed one of that plan; no step deactivates a plan; and a due-scan
\* selects every plan that is due, whatever failed before.
C40_FailedDepositFrame ==
    [][\A id \in PlanIds :
          /\ FailedDeposit(id) =>
                /\ savings_plans' = savings_plans
                /\ recurring_schedules' = recurring_schedules
                /\ Len(execution_log') = Len(execution_log) + 1
                /\ SubSeq(execution_log', 1, Len(execution_log)) = execution_log
                /\ execution_log'[Len(execution_log')].status = "failed"
                /\ execution_log'[Len(execution_log')].savings_plan_id = id
          /\ savings_plans[id].is_active = 1 => savings_plans'[id].is_active = 1
          /\ (/\ scan'.n = scan.n + 1
              /\ savings_plans[id].is_active = 1
              /\ savings_plans[id].is_recurring = 1
              /\ savings_plans[id].withdrawn = 0
              /\ savings_plans[id].next_deposit <= now)
                => id \in due_ids(recurring_schedules, savings_plans, now)
                   /\ \E i \in 1 .. Len(scan'.due) : scan'.due[i].id = id]_vars

====
